---- MODULE Spec2Model ----
(***************************************************************************)
(* The interactive scaffolder of go-api-template: the wizard controller    *)
(* (internal/scaffold/model.go), its dependency resolver and validators,   *)
(* and the project materializer (internal/scaffold/processor.go) run as a  *)
(* background command of the wizard.                                       *)
(*                                                                         *)
(* Text is a sequence of one-character strings.  A multi-letter element    *)
(* (such as "localhost") abbreviates a literal of the source.              *)
(***************************************************************************)
EXTENDS Integers, Sequences, FiniteSets, TLC

\* ------------------------------------------------------------------ bounds

\* User interactions off the straight path in one session: runes typed,
\* features toggled, values stored, cursor moves, resizes.
MaxEdits == 2

\* Materialization commands the wizard may start in one session.
MaxRuns == 2

\* Characters of the texts the validators are tried on, next to the texts
\* around the length limit.
MaxLen == 2

\* Characters of the texts the path validator is tried on.
MaxPathLen == 3

\* Calls of AuthService a generated server receives.
MaxCalls == 3

\* Features of the catalogs the resolver is tried on with every acyclic
\* dependency graph over them.
MaxFeatures == 3

\* Runes a key press can carry.
Runes == {"q", "/"}

\* Terminal sizes a WindowSizeMsg can carry, as <<width, height>>.
Sizes == {<<40, 10>>, <<80, 24>>}

\* ------------------------------------------------------------------- text

Lower == {"a", "b", "c", "d", "e", "f", "g", "h", "i", "j", "k", "l", "m",
          "n", "o", "p", "q", "r", "s", "t", "u", "v", "w", "x", "y", "z"}
Upper == {"A", "B", "C", "D", "E", "F", "G", "H", "I", "J", "K", "L", "M",
          "N", "O", "P", "Q", "R", "S", "T", "U", "V", "W", "X", "Y", "Z"}
Digit == {"0", "1", "2", "3", "4", "5", "6", "7", "8", "9"}
Space == {" "}

AllIn(s, set) == \A i \in 1..Len(s) : s[i] \in set

RECURSIVE TrimLeft(_)
TrimLeft(s) == IF s # <<>> /\ Head(s) \in Space THEN TrimLeft(Tail(s)) ELSE s

RECURSIVE TrimRight(_)
TrimRight(s) ==
    IF s # <<>> /\ s[Len(s)] \in Space THEN TrimRight(SubSeq(s, 1, Len(s) - 1)) ELSE s

TrimSpace(s) == TrimRight(TrimLeft(s))

\* The segments of s between the separators "/" (strings.Split(s, "/")).
RECURSIVE SplitSlash(_)
SplitSlash(s) ==
    IF \A i \in 1..Len(s) : s[i] # "/" THEN <<s>>
    ELSE LET k == CHOOSE i \in 1..Len(s) : s[i] = "/" /\ \A j \in 1..(i - 1) : s[j] # "/"
         IN  <<SubSeq(s, 1, k - 1)>> \o SplitSlash(SubSeq(s, k + 1, Len(s)))

\* ------------------------------------------------------------- validators

ProjectNameChars == Lower \cup Digit \cup {"_", "-"}
ModuleNameChars == Lower \cup Digit \cup {".", "/", "_", "-"}
SegmentChars == Lower \cup Upper \cup Digit \cup {".", "_", "-"}

ProjectNameLimit == 50

\* isValidProjectName with the limit one too low.
isValidProjectNameShort(name) ==
    IF Len(name) = 0 \/ Len(name) >= ProjectNameLimit THEN FALSE
    ELSE AllIn(name, ProjectNameChars)

isValidProjectName(name) ==
    IF Len(name) = 0 \/ Len(name) > ProjectNameLimit THEN FALSE
    ELSE AllIn(name, ProjectNameChars)

isValidModuleName(name) ==
    IF Len(name) = 0 \/ (\A i \in 1..Len(name) : name[i] # "/") THEN FALSE
    ELSE AllIn(name, ModuleNameChars)

\* (/[a-zA-Z0-9._-]+)* applied to the segments after the first one
SegmentsOk(segs) == \A i \in 1..Len(segs) : segs[i] # <<>> /\ AllIn(segs[i], SegmentChars)

\* isValidPath with any text of segment characters and separators passing.
isValidPathLoose(path) ==
    IF Len(path) = 0 THEN TRUE
    ELSE AllIn(path, SegmentChars \cup {"/"})

isValidPath(path) ==
    IF Len(path) = 0 THEN TRUE
    ELSE LET segs == SplitSlash(path)
             dots == Head(segs) \in {<<".">>, <<".", ".">>} /\ SegmentsOk(Tail(segs))
             plain == SegmentsOk(segs)
             dotSlash == path \in {<<".">>, <<".", "/">>}
         IN  dots \/ plain \/ dotSlash

\* --------------------------------------------------------------- resolver

FeatureCatalog == <<
    [Name |-> "Authentication (JWT)", Selected |-> TRUE, Default |-> TRUE],
    [Name |-> "User Management", Selected |-> TRUE, Default |-> TRUE],
    [Name |-> "Database", Selected |-> TRUE, Default |-> TRUE],
    [Name |-> "File Storage", Selected |-> TRUE, Default |-> TRUE],
    [Name |-> "API Docs", Selected |-> TRUE, Default |-> TRUE],
    [Name |-> "Docker", Selected |-> TRUE, Default |-> TRUE],
    [Name |-> "Podman", Selected |-> FALSE, Default |-> FALSE] >>

CatalogDependencies ==
    [n \in {FeatureCatalog[i].Name : i \in 1..Len(FeatureCatalog)} |->
        CASE n = "User Management" -> <<"Authentication (JWT)">>
          [] n = "File Storage" -> <<"Database">>
          [] OTHER -> <<>>]

\* Is a feature of this name in the list and selected (the inner loops of
\* checkDependents and getDependencyWarning).
IsSelected(feats, name) ==
    \E i \in 1..Len(feats) : feats[i].Name = name /\ feats[i].Selected

\* Index of the first feature of this name, 0 if there is none.
IndexOf(feats, name) ==
    IF \E i \in 1..Len(feats) : feats[i].Name = name
    THEN CHOOSE i \in 1..Len(feats) :
            feats[i].Name = name /\ \A j \in 1..(i - 1) : feats[j].Name # name
    ELSE 0

RECURSIVE enableDependencies(_, _, _)
RECURSIVE enableEach(_, _, _)

\* The loop of enableDependencies over the requirements deps, in order.
enableEach(graph, feats, deps) ==
    IF deps = <<>> THEN feats
    ELSE LET i == IndexOf(feats, Head(deps))
             next == IF i = 0 THEN feats
                     ELSE enableDependencies(graph, [feats EXCEPT ![i].Selected = TRUE],
                                             Head(deps))
         IN  enableEach(graph, next, Tail(deps))

\* enableDependencies selecting the direct requirements only.
enableDependenciesDirect(graph, feats, featureName) ==
    IF featureName \notin DOMAIN graph THEN feats
    ELSE [i \in 1..Len(feats) |->
            IF \E k \in 1..Len(graph[featureName]) : graph[featureName][k] = feats[i].Name
            THEN [feats[i] EXCEPT !.Selected = TRUE]
            ELSE feats[i]]

enableDependencies(graph, feats, featureName) ==
    IF featureName \notin DOMAIN graph THEN feats
    ELSE enableEach(graph, feats, graph[featureName])

RECURSIVE enableDependenciesRun(_, _, _, _)
RECURSIVE enableEachRun(_, _, _, _)

\* The loop of enableDependencies with the calls it may still nest.
enableEachRun(graph, feats, deps, depth) ==
    IF deps = <<>> THEN [feats |-> feats, done |-> TRUE]
    ELSE LET i == IndexOf(feats, Head(deps))
             r == IF i = 0 THEN [feats |-> feats, done |-> TRUE]
                  ELSE enableDependenciesRun(graph, [feats EXCEPT ![i].Selected = TRUE],
                                             Head(deps), depth - 1)
         IN  IF r.done THEN enableEachRun(graph, r.feats, Tail(deps), depth) ELSE r

\* enableDependencies run with room for depth nested calls: the features
\* it leaves and whether it returned within that room.
enableDependenciesRun(graph, feats, featureName, depth) ==
    IF depth = 0 THEN [feats |-> feats, done |-> FALSE]
    ELSE IF featureName \notin DOMAIN graph THEN [feats |-> feats, done |-> TRUE]
    ELSE enableEachRun(graph, feats, graph[featureName], depth)

\* The features the scan of checkDependents would deselect: selected, with a
\* requirement that is not selected.
Unmet(graph, feats) ==
    {i \in 1..Len(feats) :
        /\ feats[i].Selected
        /\ feats[i].Name \in DOMAIN graph
        /\ \E k \in 1..Len(graph[feats[i].Name]) :
              ~IsSelected(feats, graph[feats[i].Name][k])}

\* checkDependents deselecting nothing.
checkDependentsNone(graph, feats) == feats

\* checkDependents as one scan that never starts again.
RECURSIVE scanOnce(_, _, _)
scanOnce(graph, feats, i) ==
    IF i > Len(feats) THEN feats
    ELSE scanOnce(graph,
                  IF i \in Unmet(graph, feats)
                  THEN [feats EXCEPT ![i].Selected = FALSE] ELSE feats,
                  i + 1)

checkDependentsOnePass(graph, feats) == scanOnce(graph, feats, 1)

RECURSIVE checkDependents(_, _)
checkDependents(graph, feats) ==
    LET bad == Unmet(graph, feats)
    IN  IF bad = {} THEN feats
        ELSE LET i == CHOOSE x \in bad : \A y \in bad : x <= y
             IN  checkDependents(graph, [feats EXCEPT ![i].Selected = FALSE])

\* checkDependents calling itself without having deselected the feature.
RECURSIVE checkDependentsRunStuck(_, _, _)
checkDependentsRunStuck(graph, feats, depth) ==
    IF depth = 0 THEN [feats |-> feats, done |-> FALSE]
    ELSE IF Unmet(graph, feats) = {} THEN [feats |-> feats, done |-> TRUE]
    ELSE checkDependentsRunStuck(graph, feats, depth - 1)

\* checkDependents run with room for depth nested calls.
RECURSIVE checkDependentsRun(_, _, _)
checkDependentsRun(graph, feats, depth) ==
    IF depth = 0 THEN [feats |-> feats, done |-> FALSE]
    ELSE LET bad == Unmet(graph, feats)
         IN  IF bad = {} THEN [feats |-> feats, done |-> TRUE]
             ELSE LET i == CHOOSE x \in bad : \A y \in bad : x <= y
                  IN  checkDependentsRun(graph, [feats EXCEPT ![i].Selected = FALSE],
                                         depth - 1)

\* The warning as [kind, items]: "requires" with <<feature, missing>> pairs,
\* "auto" with the names of the selected non-default features, or "none".
getDependencyWarning(graph, feats) ==
    LET missing(i) ==
            SelectSeq(graph[feats[i].Name], LAMBDA d : ~IsSelected(feats, d))
        warns == SelectSeq([i \in 1..Len(feats) |-> i],
                    LAMBDA i : /\ feats[i].Selected
                               /\ feats[i].Name \in DOMAIN graph
                               /\ Len(graph[feats[i].Name]) > 0
                               /\ missing(i) # <<>>)
        auto == SelectSeq([i \in 1..Len(feats) |-> i],
                    LAMBDA i : feats[i].Selected /\ ~feats[i].Default)
    IN  IF warns # <<>>
        THEN [kind |-> "requires",
              items |-> [k \in 1..Len(warns) |-> <<feats[warns[k]].Name, missing(warns[k])>>]]
        ELSE IF auto # <<>>
        THEN [kind |-> "auto",
              items |-> [k \in 1..Len(auto) |-> <<feats[auto[k]].Name, <<>>>>]]
        ELSE [kind |-> "none", items |-> <<>>]

\* ------------------------------------------------------------- filesystem

\* A directory: n levels above the working directory (or the root when abs),
\* then down through segs.
Cwd == [abs |-> FALSE, up |-> 0, segs |-> <<>>]
Root == [abs |-> TRUE, up |-> 0, segs |-> <<>>]

\* filepath.Clean applied segment by segment.
RECURSIVE Walk(_, _)
Walk(dir, segs) ==
    IF segs = <<>> THEN dir
    ELSE LET s == Head(segs)
             d == CASE s = <<>> \/ s = <<".">> -> dir
                    [] s = <<".", ".">> ->
                         IF dir.segs # <<>>
                         THEN [dir EXCEPT !.segs = SubSeq(@, 1, Len(@) - 1)]
                         ELSE IF dir.abs THEN dir ELSE [dir EXCEPT !.up = @ + 1]
                    [] OTHER -> [dir EXCEPT !.segs = Append(@, s)]
         IN  Walk(d, Tail(segs))

\* filepath.Abs: a relative path is joined to the working directory.
Abs(path) ==
    IF path # <<>> /\ Head(path) = "/" THEN Walk(Root, SplitSlash(path))
    ELSE Walk(Cwd, SplitSlash(path))

\* filepath.Join(dir, name)
Join(dir, name) == Walk(dir, SplitSlash(name))

\* d is dir or lies below it.
Below(dir, d) ==
    /\ d.abs = dir.abs
    /\ d.up = dir.up
    /\ Len(d.segs) >= Len(dir.segs)
    /\ SubSeq(d.segs, 1, Len(dir.segs)) = dir.segs

\* The directories from the first one below the working directory (or one
\* of its ancestors, which exist) down to dir.
Ancestors(dir) == {[dir EXCEPT !.segs = SubSeq(dir.segs, 1, k)] : k \in 1..Len(dir.segs)}

\* What a directory holds.  by: the run that made it, 0 when it was there
\* before the session.  mainGo and routesGo hold the rendered template data,
\* files the copied files that name a placeholder, goMod the line of go.mod
\* that is rewritten.
\* No file: the files of a directory are a function from their path
\* below it to their content.
NoFiles == [p \in {} |-> <<>>]

EmptyDir(run) ==
    [by |-> run, base |-> "none", overlays |-> {}, partial |-> {},
     mainGo |-> <<>>, routesGo |-> <<>>, rewritten |-> FALSE, goMod |-> <<>>,
     git |-> {}, files |-> NoFiles]

\* A directory someone else made, with content of its own.
ForeignDir == [EmptyDir(0) EXCEPT !.base = "foreign"]

\* A Stat that finds nothing.
ExistsNever(fs, dir) == FALSE

\* os.Stat(dir) returns no error
Exists(fs, dir) == dir.segs = <<>> \/ dir \in DOMAIN fs

\* os.MkdirAll(dir): dir and its missing parents
MkdirAll(fs, dir, run) ==
    [d \in DOMAIN fs \cup Ancestors(dir) |->
        IF d \in DOMAIN fs THEN fs[d] ELSE EmptyDir(run)]

\* A RemoveAll that removes nothing.
RemoveNothing(fs, dir) == fs

\* os.RemoveAll(dir): dir and everything below it
RemoveAll(fs, dir) ==
    [d \in {x \in DOMAIN fs : ~Below(dir, x)} |-> fs[d]]

\* ------------------------------------------------------------ materializer

\* featureMap with an entry for Podman.
featureMapWithPodman ==
    [n \in {"Authentication (JWT)", "User Management", "Database", "File Storage",
            "API Docs", "Docker", "Podman"} |->
        CASE n = "Authentication (JWT)" -> "auth"
          [] n = "User Management" -> "user-management"
          [] n = "Database" -> "database"
          [] n = "File Storage" -> "file-storage"
          [] n = "API Docs" -> "api-docs"
          [] n = "Docker" -> "docker"
          [] n = "Podman" -> "podman"]

\* featureMap of copySelectedFeaturesFromEmbed: the directory of each
\* feature under scaffold/features.
featureMap ==
    [n \in {"Authentication (JWT)", "User Management", "Database", "File Storage",
            "API Docs", "Docker"} |->
        CASE n = "Authentication (JWT)" -> "auth"
          [] n = "User Management" -> "user-management"
          [] n = "Database" -> "database"
          [] n = "File Storage" -> "file-storage"
          [] n = "API Docs" -> "api-docs"
          [] n = "Docker" -> "docker"]

FeatureIDs == {featureMap[n] : n \in DOMAIN featureMap}

\* The I/O operations of a run that can fail, each with the feature it
\* belongs to ("" when it belongs to none).
RunOps == {"abs", "mkdir", "base", "main", "routes", "replace", "gomod",
           "git init", "git config user.email", "git config user.name",
           "git add", "git commit"}
FeatureOps == {"manifest", "missing", "copy"}
Faults == {[op |-> o, id |-> ""] : o \in RunOps}
              \cup {[op |-> o, id |-> i] : o \in FeatureOps, i \in FeatureIDs}

\* The template tree holding no feature.json at all.
NoManifests == {[op |-> "manifest", id |-> i] : i \in FeatureIDs}

\* The failures one run may meet: none, one operation failing, or the
\* manifest of every feature missing.
FaultSets == {{}} \cup {{f} : f \in Faults} \cup {NoManifests}

Fails(faults, o) == [op |-> o, id |-> ""] \in faults

\* selectedFeatures[name] of a Go map: false for a name that is no key
Has(selectedFeatures, name) ==
    name \in DOMAIN selectedFeatures /\ selectedFeatures[name]

\* The data both templates are executed with.
TemplateData(moduleName, selectedFeatures) ==
    [Module |-> moduleName,
     HasAuth |-> Has(selectedFeatures, "Authentication (JWT)"),
     HasUser |-> Has(selectedFeatures, "User Management"),
     HasDatabase |-> Has(selectedFeatures, "Database"),
     HasFile |-> Has(selectedFeatures, "File Storage"),
     HasDocs |-> Has(selectedFeatures, "API Docs"),
     HasDocker |-> Has(selectedFeatures, "Docker")]

\* What a step returns: its error ("" for nil), the filesystem it leaves and
\* the operations of it that failed.
Ret(err, fs, failed) == [err |-> err, fs |-> fs, failed |-> failed]

Hit(faults, ops) == {f \in faults : f.id = "" /\ f.op \in ops}

\* The one element of a set of one.
Only(S) == CHOOSE x \in S : TRUE

\* strings.HasSuffix
HasSuffix(s, suffix) ==
    Len(s) >= Len(suffix) /\ SubSeq(s, Len(s) - Len(suffix) + 1, Len(s)) = suffix

\* strings.Contains
Contains(s, sub) ==
    \/ sub = <<>>
    \/ \E i \in 1..(Len(s) - Len(sub) + 1) :
          s[i] = sub[1] /\ SubSeq(s, i, i + Len(sub) - 1) = sub

\* strings.ReplaceAll: the occurrences of old from the left, none
\* overlapping another.
RECURSIVE ReplaceAll(_, _, _)
ReplaceAll(s, old, new) ==
    IF ~Contains(s, old) THEN s
    ELSE LET At(i) == s[i] = old[1] /\ SubSeq(s, i, i + Len(old) - 1) = old
             first == CHOOSE i \in 1..(Len(s) - Len(old) + 1) :
                          At(i) /\ \A j \in 1..(i - 1) : ~At(j)
         IN  SubSeq(s, 1, first - 1) \o new
                \o ReplaceAll(SubSeq(s, first + Len(old), Len(s)), old, new)

\* filepath.Base of a path that does not end in a separator
Base(path) == LET segs == SplitSlash(path) IN segs[Len(segs)]

templateModule ==
    <<"g", "o", "_", "p", "l", "a", "t", "f", "o", "r", "m", "_", "t", "e", "m", "p", "l",
      "a", "t", "e">>

templateName ==
    <<"g", "o", "-", "p", "l", "a", "t", "f", "o", "r", "m", "-", "t", "e", "m", "p", "l",
      "a", "t", "e">>

\* The line of logger.go that names the module.
LoggerGoPath ==
    <<"i", "n", "t", "e", "r", "n", "a", "l", "/", "p", "l", "a", "t", "f", "o", "r", "m",
      "/", "l", "o", "g", "g", "e", "r", "/", "l", "o", "g", "g", "e", "r", ".", "g", "o">>

LoggerGoImport ==
    <<"\"", "g", "o", "_", "p", "l", "a", "t", "f", "o", "r", "m", "_", "t", "e", "m", "p",
      "l", "a", "t", "e", "/", "i", "n", "t", "e", "r", "n", "a", "l", "/", "p", "l", "a",
      "t", "f", "o", "r", "m", "/", "c", "o", "n", "f", "i", "g", "\"">>

\* The line of token_repo.go that names the module.
TokenRepoGoPath ==
    <<"i", "n", "t", "e", "r", "n", "a", "l", "/", "d", "o", "m", "a", "i", "n", "/", "a",
      "u", "t", "h", "/", "r", "e", "p", "o", "/", "t", "o", "k", "e", "n", "_", "r", "e",
      "p", "o", ".", "g", "o">>

TokenRepoGoImport ==
    <<"\"", "g", "o", "_", "p", "l", "a", "t", "f", "o", "r", "m", "_", "t", "e", "m", "p",
      "l", "a", "t", "e", "/", "i", "n", "t", "e", "r", "n", "a", "l", "/", "d", "o", "m",
      "a", "i", "n", "/", "a", "u", "t", "h", "/", "m", "o", "d", "e", "l", "\"">>

\* scaffoldFS: the embedded tree the materializer copies from, set once by
\* SetScaffoldFS before the program starts: the files of scaffold/base and of
\* each scaffold/features/<id>.
VARIABLE scaffoldFS

\* The embedded tree of the repository, as far as its files name a
\* placeholder.
EmbeddedScaffold ==
    [base |-> (LoggerGoPath :> LoggerGoImport),
     features |-> [id \in {"auth"} |-> (TokenRepoGoPath :> TokenRepoGoImport)]]

\* The files of scaffold/base.
BaseFiles == scaffoldFS.base

\* The files of scaffold/features/<id>.
FeatureFiles(id) ==
    IF id \in DOMAIN scaffoldFS.features THEN scaffoldFS.features[id] ELSE NoFiles

\* The paths, below the project directory, of the two generated files.
MainGoPath == <<"c", "m", "d", "/", "s", "e", "r", "v", "e", "r", "/", "m", "a", "i", "n",
                ".", "g", "o">>
RoutesGoPath == <<"i", "n", "t", "e", "r", "n", "a", "l", "/", "a", "p", "p", "/", "r", "o",
                  "u", "t", "e", "s", ".", "g", "o">>

\* os.WriteFile of every file of new into the directory dir: a file already
\* at the path is replaced, a generated one included.
WriteFiles(dir, new) ==
    [dir EXCEPT !.files = new @@ @,
                !.mainGo = IF MainGoPath \in DOMAIN new THEN <<>> ELSE @,
                !.routesGo = IF RoutesGoPath \in DOMAIN new THEN <<>> ELSE @]

\* os.Create of the file at path in the directory dir: a file copied there
\* is truncated.
CreateFile(dir, path) ==
    [dir EXCEPT !.files = [p \in DOMAIN @ \ {path} |-> @[p]]]

\* The files of the features ids together.
RECURSIVE FilesOf(_)
FilesOf(ids) ==
    IF ids = {} THEN NoFiles
    ELSE LET i == CHOOSE x \in ids : TRUE IN FeatureFiles(i) @@ FilesOf(ids \ {i})

\* The base copy with its error dropped.
copyBaseScaffoldFromEmbedIgnored(fs, projectDir, faults) ==
    IF Fails(faults, "base")
    THEN Ret("", [fs EXCEPT ![projectDir].base = "partial"], Hit(faults, {"base"}))
    ELSE Ret("", [fs EXCEPT ![projectDir] = WriteFiles([@ EXCEPT !.base = "full"], BaseFiles)],
             {})

\* copyBaseScaffoldFromEmbed: the walk stops at the first error, leaving
\* what it had written.
copyBaseScaffoldFromEmbed(fs, projectDir, faults) ==
    IF Fails(faults, "base")
    THEN Ret("walk", [fs EXCEPT ![projectDir].base = "partial"], Hit(faults, {"base"}))
    ELSE Ret("", [fs EXCEPT ![projectDir] = WriteFiles([@ EXCEPT !.base = "full"], BaseFiles)],
             {})

\* copySelectedFeaturesFromEmbed: a feature without a mapping or a readable
\* manifest is skipped, an asset that is missing or fails to copy is
\* skipped; no error is returned.
\* The feature copy giving up at the first manifest or asset it cannot use.
copySelectedFeaturesFromEmbedStrict(fs, projectDir, selectedFeatures, faults) ==
    LET ids == {featureMap[n] : n \in {x \in DOMAIN featureMap : Has(selectedFeatures, x)}}
        hit == {f \in faults : f.op \in FeatureOps /\ f.id \in ids}
    IN  IF hit # {} THEN Ret("feature", fs, hit)
        ELSE Ret("", [fs EXCEPT ![projectDir] =
                                    WriteFiles([@ EXCEPT !.overlays = @ \cup ids],
                                               FilesOf(ids))], {})

copySelectedFeaturesFromEmbed(fs, projectDir, selectedFeatures, faults) ==
    LET ids == {featureMap[n] : n \in {x \in DOMAIN featureMap : Has(selectedFeatures, x)}}
        unread == {f \in faults : f.op = "manifest" /\ f.id \in ids}
        read == ids \ {f.id : f \in unread}
        lost == {f \in faults : f.op \in {"missing", "copy"} /\ f.id \in read}
        part == {f.id : f \in lost}
    IN  Ret("",
            [fs EXCEPT ![projectDir] =
                           WriteFiles([@ EXCEPT !.overlays = @ \cup (read \ part),
                                                !.partial = @ \cup part],
                                      FilesOf(read \ part))],
            unread \cup lost)

\* mainGoTemplate calling RegisterRoutes whatever is selected.
mainGoTemplateAlwaysRegisters(data) ==
    [Module |-> data.Module,
     imports |-> {"internal/app", "internal/platform/config", "internal/platform/logger"}
                    \cup (IF data.HasDocs THEN {"docs"} ELSE {}),
     calls |-> {"SetupMiddleware", "StartServer", "RegisterRoutes"}
                    \cup (IF data.HasDatabase THEN {"InitDB", "HealthCheckHandler"} ELSE {})
                    \cup (IF data.HasDocs THEN {"SetupSwagger"} ELSE {})]

\* mainGoTemplate executed with data: the module its imports start with,
\* the packages it imports from the module and the functions of bootstrap
\* that main calls.
mainGoTemplate(data) ==
    [Module |-> data.Module,
     imports |-> {"internal/app", "internal/platform/config", "internal/platform/logger"}
                    \cup (IF data.HasDocs THEN {"docs"} ELSE {}),
     calls |-> {"SetupMiddleware", "StartServer"}
                    \cup (IF data.HasDatabase
                          THEN {"InitDB", "RegisterRoutes", "HealthCheckHandler"}
                          ELSE {})
                    \cup (IF data.HasDocs THEN {"SetupSwagger"} ELSE {})]

\* generateMainGo leaving a main.go that is already there as it is.
generateMainGoIfAbsent(fs, projectDir, moduleName, selectedFeatures, faults) ==
    IF Fails(faults, "main")
    THEN Ret("failed to create main.go", fs, Hit(faults, {"main"}))
    ELSE IF MainGoPath \in DOMAIN fs[projectDir].files
    THEN Ret("", fs, {})
    ELSE Ret("",
             [fs EXCEPT ![projectDir] =
                 [CreateFile(@, MainGoPath) EXCEPT
                     !.mainGo = <<mainGoTemplate(TemplateData(moduleName, selectedFeatures))>>]],
             {})

\* generateMainGo: cmd/server/main.go created, or truncated, and the
\* template written into it.
generateMainGo(fs, projectDir, moduleName, selectedFeatures, faults) ==
    IF Fails(faults, "main")
    THEN Ret("failed to create main.go", fs, Hit(faults, {"main"}))
    ELSE Ret("",
             [fs EXCEPT ![projectDir] =
                 [CreateFile(@, MainGoPath) EXCEPT
                     !.mainGo = <<mainGoTemplate(TemplateData(moduleName, selectedFeatures))>>]],
             {})

\* A statement of RegisterRoutes: the variable it declares ("" when it
\* declares none) and the packages and variables it refers to.
Stmt(declares, refers) == [declares |-> declares, refers |-> refers]

\* A route: its group, method, path and handler, and whether the JWT
\* middleware runs before the handler.
Route(group, method, path, handler, jwt) ==
    [group |-> group, method |-> method, path |-> path, handler |-> handler, jwt |-> jwt]

\* routesGoTemplate with every route of the user group behind the
\* middleware when authentication is there.
routesGoTemplateAllBehind(data) ==
    [Module |-> data.Module,
     imports |->
        {"config", "middleware"}
            \cup (IF data.HasAuth THEN {"authApi", "authRepo", "authService"} ELSE {})
            \cup (IF data.HasUser THEN {"userApi", "userRepo", "userService"} ELSE {})
            \cup (IF data.HasFile THEN {"fileApi", "fileRepo", "fileService"} ELSE {}),
     statements |->
        (IF data.HasAuth THEN {Stmt("jwtManager", {"authService"})} ELSE {})
            \cup (IF data.HasUser
                  THEN {Stmt("uRepo", {"userRepo"}),
                        Stmt("uService", {"userService", "uRepo"}),
                        Stmt("uHandler", {"userApi", "uService"})}
                  ELSE {})
            \cup (IF data.HasAuth
                  THEN {Stmt("tRepo", {"authRepo"}),
                        Stmt("tStore", {"authService", "tRepo"}),
                        Stmt("aService", {"authService", "uRepo", "jwtManager", "tStore"}),
                        Stmt("aHandler", {"authApi", "aService"}),
                        Stmt("", {"authService", "tStore"})}
                  ELSE {})
            \cup (IF data.HasFile
                  THEN {Stmt("fRepo", {"fileRepo"}),
                        Stmt("fileHandler", {"fileApi"}),
                        Stmt("fSvc", {"fileService", "fRepo"}),
                        Stmt("", {"fileHandler", "fileApi", "fSvc"})}
                  ELSE {}),
     routes |->
        (IF data.HasAuth
         THEN {Route("auth", "POST", "/login", "aHandler.Login", FALSE),
               Route("auth", "POST", "/refresh", "aHandler.Refresh", FALSE),
               Route("auth", "POST", "/logout", "aHandler.Logout", FALSE),
               Route("protected", "GET", "/me", "aHandler.Me", TRUE)}
         ELSE {})
            \cup (IF data.HasUser
                  THEN {Route("users", "POST", "/", "uHandler.Register", data.HasAuth),
                        Route("users", "GET", "/", "uHandler.ListUsers", data.HasAuth),
                        Route("users", "GET", "/:id", "uHandler.GetUser", data.HasAuth),
                        Route("users", "PUT", "/:id", "uHandler.Update", data.HasAuth),
                        Route("users", "DELETE", "/:id", "uHandler.Delete", data.HasAuth)}
                  ELSE {})
            \cup (IF data.HasFile
                  THEN {Route("files", "POST", "/upload", "fileHandler.Upload", data.HasAuth),
                        Route("files", "GET", "/:filename", "fileHandler.GetFile",
                              data.HasAuth),
                        Route("files", "DELETE", "/:filename", "fileHandler.DeleteFile",
                              data.HasAuth),
                        Route("files", "GET", "/", "fileHandler.GetUserFiles", data.HasAuth)}
                  ELSE {})]

\* routesGoTemplate with the routes of the user group never behind the
\* middleware.
routesGoTemplateOpenUsers(data) ==
    LET r == routesGoTemplateAllBehind(data)
    IN  [r EXCEPT !.routes = {[x EXCEPT !.jwt = (x.group # "users" /\ x.jwt)] : x \in r.routes}]

\* routesGoTemplate executed with data: the imports, the statements and
\* the routes of the file it renders.
routesGoTemplate(data) ==
    [Module |-> data.Module,
     imports |->
        {"config", "middleware"}
            \cup (IF data.HasAuth THEN {"authApi", "authRepo", "authService"} ELSE {})
            \cup (IF data.HasUser THEN {"userApi", "userRepo", "userService"} ELSE {})
            \cup (IF data.HasFile THEN {"fileApi", "fileRepo", "fileService"} ELSE {}),
     statements |->
        (IF data.HasAuth THEN {Stmt("jwtManager", {"authService"})} ELSE {})
            \cup (IF data.HasUser
                  THEN {Stmt("uRepo", {"userRepo"}),
                        Stmt("uService", {"userService", "uRepo"}),
                        Stmt("uHandler", {"userApi", "uService"})}
                  ELSE {})
            \cup (IF data.HasAuth
                  THEN {Stmt("tRepo", {"authRepo"}),
                        Stmt("tStore", {"authService", "tRepo"}),
                        Stmt("aService", {"authService", "uRepo", "jwtManager", "tStore"}),
                        Stmt("aHandler", {"authApi", "aService"}),
                        Stmt("", {"authService", "tStore"})}
                  ELSE {})
            \cup (IF data.HasFile
                  THEN {Stmt("fRepo", {"fileRepo"}),
                        Stmt("fileHandler", {"fileApi"}),
                        Stmt("fSvc", {"fileService", "fRepo"}),
                        Stmt("", {"fileHandler", "fileApi", "fSvc"})}
                  ELSE {}),
     routes |->
        (IF data.HasAuth
         THEN {Route("auth", "POST", "/login", "aHandler.Login", FALSE),
               Route("auth", "POST", "/refresh", "aHandler.Refresh", FALSE),
               Route("auth", "POST", "/logout", "aHandler.Logout", FALSE),
               Route("protected", "GET", "/me", "aHandler.Me", TRUE)}
         ELSE {})
            \cup (IF data.HasUser
                  THEN {Route("users", "POST", "/", "uHandler.Register", FALSE),
                        Route("users", "GET", "/", "uHandler.ListUsers", data.HasAuth),
                        Route("users", "GET", "/:id", "uHandler.GetUser", data.HasAuth),
                        Route("users", "PUT", "/:id", "uHandler.Update", data.HasAuth),
                        Route("users", "DELETE", "/:id", "uHandler.Delete", data.HasAuth)}
                  ELSE {})
            \cup (IF data.HasFile
                  THEN {Route("files", "POST", "/upload", "fileHandler.Upload", data.HasAuth),
                        Route("files", "GET", "/:filename", "fileHandler.GetFile",
                              data.HasAuth),
                        Route("files", "DELETE", "/:filename", "fileHandler.DeleteFile",
                              data.HasAuth),
                        Route("files", "GET", "/", "fileHandler.GetUserFiles", data.HasAuth)}
                  ELSE {})]

generateRoutesGo(fs, projectDir, moduleName, selectedFeatures, faults) ==
    IF Fails(faults, "routes")
    THEN Ret("failed to create routes.go", fs, Hit(faults, {"routes"}))
    ELSE Ret("",
             [fs EXCEPT ![projectDir] =
                 [CreateFile(@, RoutesGoPath) EXCEPT
                     !.routesGo =
                         <<routesGoTemplate(TemplateData(moduleName, selectedFeatures))>>]],
             {})

ConfigExts == {<<".", "y", "a", "m", "l">>, <<".", "y", "m", "l">>,
               <<".", "j", "s", "o", "n">>, <<".", "t", "o", "m", "l">>}
ConfigNames == {<<"M", "a", "k", "e", "f", "i", "l", "e">>,
                <<"D", "o", "c", "k", "e", "r", "f", "i", "l", "e">>}

isConfigFile(path) ==
    IF \E ext \in ConfigExts : HasSuffix(path, ext) THEN TRUE
    ELSE Base(path) \in ConfigNames

\* The callback of the walk on a file: both placeholders in a Go file, the
\* project name in a config file, nothing in any other.
RewriteFile(path, content, projectName, moduleName) ==
    IF HasSuffix(path, <<".", "g", "o">>)
    THEN Only({ReplaceAll(newContent, templateName, projectName) :
                 newContent \in {ReplaceAll(content, templateModule, moduleName)}})
    ELSE IF isConfigFile(path)
    THEN ReplaceAll(content, templateName, projectName)
    ELSE content

\* The callback of the walk on a generated file: the placeholders in the
\* module its imports start with, the only text of the two templates that can
\* hold one.
RewriteGenerated(gen, path, projectName, moduleName) ==
    [i \in DOMAIN gen |->
        [gen[i] EXCEPT !.Module = RewriteFile(path, gen[i].Module, projectName, moduleName)]]

\* The rewrite leaving the config files as they are.
replaceModuleNamesGoOnly(fs, projectDir, projectName, moduleName, faults) ==
    IF Fails(faults, "replace")
    THEN Ret("walk", fs, Hit(faults, {"replace"}))
    ELSE Ret("",
             [fs EXCEPT ![projectDir].rewritten = TRUE,
                        ![projectDir].files =
                            [p \in DOMAIN @ |->
                                IF HasSuffix(p, <<".", "g", "o">>)
                                THEN RewriteFile(p, @[p], projectName, moduleName)
                                ELSE @[p]],
                        ![projectDir].mainGo =
                            RewriteGenerated(@, MainGoPath, projectName, moduleName),
                        ![projectDir].routesGo =
                            RewriteGenerated(@, RoutesGoPath, projectName, moduleName),
                        ![projectDir].goMod =
                            IF Fails(faults, "gomod") THEN @ ELSE <<moduleName>>],
             Hit(faults, {"gomod"}))

\* replaceModuleNames: the walk over the files, then the first line of
\* go.mod, whose read or write error is ignored.
replaceModuleNames(fs, projectDir, projectName, moduleName, faults) ==
    IF Fails(faults, "replace")
    THEN Ret("walk", fs, Hit(faults, {"replace"}))
    ELSE Ret("",
             [fs EXCEPT ![projectDir].rewritten = TRUE,
                        ![projectDir].files =
                            [p \in DOMAIN @ |->
                                RewriteFile(p, @[p], projectName, moduleName)],
                        ![projectDir].mainGo =
                            RewriteGenerated(@, MainGoPath, projectName, moduleName),
                        ![projectDir].routesGo =
                            RewriteGenerated(@, RoutesGoPath, projectName, moduleName),
                        ![projectDir].goMod =
                            IF Fails(faults, "gomod") THEN @ ELSE <<moduleName>>],
             Hit(faults, {"gomod"}))

\* The commands initializeGit runs after `git init`.
GitCommands == {"git config user.email", "git config user.name", "git add", "git commit"}

\* initializeGit stopping at the first command that fails.
initializeGitChecked(fs, projectDir, faults) ==
    IF Fails(faults, "git init") \/ \E c \in GitCommands : Fails(faults, c)
    THEN Ret("git", fs, Hit(faults, {"git init"} \cup GitCommands))
    ELSE Ret("", [fs EXCEPT ![projectDir].git = {"git init"} \cup GitCommands], {})

\* initializeGit: only `git init` is checked; the other four commands run
\* whatever the earlier ones did, their errors ignored.
initializeGit(fs, projectDir, faults) ==
    IF Fails(faults, "git init")
    THEN Ret("git init", fs, Hit(faults, {"git init"}))
    ELSE Ret("",
             [fs EXCEPT ![projectDir].git =
                            {"git init"} \cup {c \in GitCommands : ~Fails(faults, c)}],
             Hit(faults, GitCommands))

\* projectDir of createProject
ProjectDir(projectName, projectPath) ==
    Join(IF projectPath = <<".">> THEN Cwd ELSE Abs(projectPath), projectName)

\* createProject as [err, fs, failed]: the error returned ("" for nil), the
\* filesystem it leaves and the operations that failed.  Each step's
\* result is taken once, as the value the next step receives.
createProject(fs, projectName, moduleName, projectPath, selectedFeatures, faults, run) ==
    IF projectPath # <<".">> /\ Fails(faults, "abs")
    THEN Ret("invalid project path", fs, Hit(faults, {"abs"}))
    ELSE
    LET projectDir == ProjectDir(projectName, projectPath)
    IN
    IF Exists(fs, projectDir)
    THEN Ret("directory already exists", fs, {})
    ELSE IF Fails(faults, "mkdir")
    THEN Ret("failed to create project directory", fs, Hit(faults, {"mkdir"}))
    ELSE
    Only({
    IF s1.err # ""
    THEN Ret("failed to copy base files", RemoveAll(s1.fs, projectDir), s1.failed)
    ELSE
    Only({
    LET f2 == s1.failed \cup s2.failed
    IN
    IF s2.err # ""
    THEN Ret("failed to copy features", RemoveAll(s2.fs, projectDir), f2)
    ELSE
    Only({
    LET f3 == f2 \cup s3.failed
    IN
    IF s3.err # ""
    THEN Ret("failed to generate main.go", RemoveAll(s3.fs, projectDir), f3)
    ELSE
    Only({
    LET f4 == f3 \cup s4.failed
    IN
    IF s4.err # ""
    THEN Ret("failed to generate routes.go", RemoveAll(s4.fs, projectDir), f4)
    ELSE
    Only({
    LET f5 == f4 \cup s5.failed
    IN
    IF s5.err # ""
    THEN Ret("failed to update module names", RemoveAll(s5.fs, projectDir), f5)
    ELSE
    Only({
    LET f6 == f5 \cup s6.failed
    IN
    IF s6.err # ""
    THEN Ret("failed to initialize git", RemoveAll(s6.fs, projectDir), f6)
    ELSE Ret("", s6.fs, f6)
    : s6 \in {initializeGit(s5.fs, projectDir, faults)}})
    : s5 \in {replaceModuleNames(s4.fs, projectDir, projectName, moduleName, faults)}})
    : s4 \in {generateRoutesGo(s3.fs, projectDir, moduleName, selectedFeatures, faults)}})
    : s3 \in {generateMainGo(s2.fs, projectDir, moduleName, selectedFeatures, faults)}})
    : s2 \in {copySelectedFeaturesFromEmbed(s1.fs, projectDir, selectedFeatures, faults)}})
    : s1 \in {copyBaseScaffoldFromEmbed(MkdirAll(fs, projectDir, run), projectDir, faults)}})

\* ----------------------------------------------------------------- wizard

VARIABLES
    state,              \* Model.state, by the name of the State constant
    projectName, moduleName, projectPath,
    envVars, envFocus, envEditing, envInput,
    inputs,             \* the values of the three text inputs
    focusIndex,
    width, height,
    features, featureFocus,
    featureDependencies,
    menuFocus,
    err,                \* the error's text, "" for nil
    message, warning,
    projectNameValid, moduleNameValid, projectPathValid,
    quit,               \* tea.Quit was returned: the program has ended
    tasks,              \* the commands processScaffold has started, in order
    queue,              \* the ProcessCompleteMsg sent and not yet handled
    fs,                 \* the directories below the working directory
    edits,              \* user interactions counted against MaxEdits
    refreshTokens,      \* the rows of the refresh token table of a generated server
    calls               \* the calls of AuthService made on that server, in order

textVars == <<projectName, moduleName, projectPath, inputs, focusIndex,
              projectNameValid, moduleNameValid, projectPathValid>>
envState == <<envVars, envFocus, envEditing, envInput>>
featVars == <<features, featureFocus, featureDependencies>>
viewVars == <<width, height, menuFocus>>
authVars == <<refreshTokens, calls>>
noteVars == <<err, message, warning>>
taskVars == <<tasks, queue, fs>>
vars == <<state, textVars, envState, featVars, viewVars, noteVars, quit, taskVars,
          edits, authVars, scaffoldFS>>

\* The input states in the order of their text inputs.
InputOrder == <<"ProjectName", "ModuleName", "ProjectPath">>

InputStates == {"ProjectName", "ModuleName", "ProjectPath"}

menuItems == <<"create", "help", "exit">>

envKeys == <<"DB_HOST", "DB_PORT", "DB_USER", "DB_PASSWORD", "DB_NAME", "JWT_SECRET",
             "MINIO_ACCESS_KEY", "MINIO_SECRET_KEY">>

\* defaults[key] of the Enter handler of StateEnvVars
EnvDefault(key, name) ==
    CASE key = "DB_HOST" -> <<"localhost">>
      [] key = "DB_PORT" -> <<"5432">>
      [] key = "DB_USER" -> <<"postgres">>
      [] key = "DB_PASSWORD" -> <<"postgres">>
      [] key = "DB_NAME" -> name
      [] key = "JWT_SECRET" -> <<"your-secret-key-change-in-production">>
      [] key = "MINIO_ACCESS_KEY" -> <<"minioadmin">>
      [] key = "MINIO_SECRET_KEY" -> <<"minioadmin">>

ModulePrefix == <<"g", "i", "t", "h", "u", "b", ".", "c", "o", "m", "/",
                  "e", "x", "a", "m", "p", "l", "e", "/">>

NoMessage == [kind |-> "", name |-> <<>>]
HelpText == [kind |-> "help", name |-> <<>>]
CreatedMessage(name) == [kind |-> "created", name |-> name]

NoWarning == [kind |-> "none", items |-> <<>>]
HelpWarning == [kind |-> "help", items |-> <<>>]

\* CharLimit of the three text inputs and of the environment input
CharLimit == <<50, 100, 200>>
EnvCharLimit == 200

\* textinput: a rune typed at the end, within the CharLimit; SetValue
\* truncates to it; Backspace deletes the last rune.
Insert(value, r, limit) == IF Len(value) < limit THEN Append(value, r) ELSE value
SetValue(value, limit) == SubSeq(value, 1, IF Len(value) < limit THEN Len(value) ELSE limit)
DeleteLast(value) == IF value = <<>> THEN value ELSE SubSeq(value, 1, Len(value) - 1)

\* The directories that may be there before the session starts.
Preexisting == {Join(Cwd, <<"q">>)}

Init ==
    /\ state = "MainMenu"
    /\ projectName = <<>>
    /\ moduleName = <<>>
    /\ projectPath = <<".">>
    /\ envVars = <<>>
    /\ envFocus = 0
    /\ envEditing = FALSE
    /\ envInput = <<>>
    /\ inputs = <<<<>>, <<>>, <<>>>>
    /\ focusIndex = 0
    /\ width = 80
    /\ height = 24
    /\ features = FeatureCatalog
    /\ featureDependencies = CatalogDependencies
    /\ featureFocus = 0
    /\ menuFocus = 0
    /\ err = ""
    /\ message = NoMessage
    /\ warning = NoWarning
    /\ projectNameValid = FALSE
    /\ moduleNameValid = FALSE
    /\ projectPathValid = FALSE
    /\ quit = FALSE
    /\ tasks = <<>>
    /\ queue = <<>>
    /\ \E there \in SUBSET Preexisting : fs = [d \in there |-> ForeignDir]
    /\ edits = 0
    /\ refreshTokens = <<>>
    /\ calls = <<>>
    /\ scaffoldFS = EmbeddedScaffold

\* tea.WindowSizeMsg
WindowSize ==
    /\ ~quit
    /\ edits < MaxEdits
    /\ \E size \in Sizes :
          /\ width' = IF size[1] < 60 THEN 60 ELSE size[1]
          /\ height' = IF size[2] < 20 THEN 20 ELSE size[2]
    /\ edits' = edits + 1
    /\ UNCHANGED <<state, textVars, envState, featVars, menuFocus, noteVars, quit,
                   taskVars, authVars, scaffoldFS>>

\* Ctrl+C going back to the main menu, as the help screen words it.
KeyCtrlCToMenu ==
    /\ ~quit
    /\ state' = "MainMenu"
    /\ UNCHANGED <<textVars, envState, featVars, viewVars, noteVars, quit, taskVars, edits, authVars, scaffoldFS>>

KeyCtrlC ==
    /\ ~quit
    /\ quit' = TRUE
    /\ UNCHANGED <<state, textVars, envState, featVars, viewVars, noteVars, taskVars,
                   edits, authVars, scaffoldFS>>

\* The cursor a key moves in this state: one step, wrapping in 0..last.
Step(cursor, by, last) ==
    IF cursor + by < 0 THEN last ELSE IF cursor + by > last THEN 0 ELSE cursor + by

\* tea.KeyUp (by = -1) and tea.KeyDown (by = 1)
MoveCursor(by) ==
    /\ menuFocus' = IF state = "MainMenu" THEN Step(menuFocus, by, Len(menuItems) - 1)
                    ELSE menuFocus
    /\ featureFocus' = IF state = "Features" THEN Step(featureFocus, by, Len(features) - 1)
                       ELSE featureFocus
    /\ envFocus' = IF state = "EnvVars" /\ ~envEditing THEN Step(envFocus, by, 7)
                   ELSE envFocus
    /\ UNCHANGED <<state, textVars, envVars, envEditing, envInput, features,
                   featureDependencies, width, height, noteVars, quit, taskVars, authVars, scaffoldFS>>

KeyUp == ~quit /\ edits < MaxEdits /\ edits' = edits + 1 /\ MoveCursor(-1)

KeyDown == ~quit /\ edits < MaxEdits /\ edits' = edits + 1 /\ MoveCursor(1)

KeyEscape ==
    /\ ~quit
    /\ IF state = "EnvVars" /\ envEditing
       THEN envEditing' = FALSE /\ envInput' = <<>>
       ELSE UNCHANGED <<envEditing, envInput, authVars, scaffoldFS>>
    /\ UNCHANGED <<state, textVars, envVars, envFocus, featVars, viewVars, noteVars,
                   quit, taskVars, edits, authVars, scaffoldFS>>

\* Toggle without the rescan after a deselection.
ToggleNoCascade(graph, feats, i) ==
    IF feats[i].Selected
    THEN [feats EXCEPT ![i].Selected = FALSE]
    ELSE checkDependents(graph,
            enableDependencies(graph, [feats EXCEPT ![i].Selected = TRUE], feats[i].Name))

\* A select branch that flips the flag instead of setting it.
onSelectFlip(graph, feats, i) ==
    checkDependents(graph,
        enableDependencies(graph, [feats EXCEPT ![i].Selected = ~@], feats[i].Name))

\* The select branch of Space: the feature at index i is marked, its
\* requirements are enabled, the dependents are rescanned.
onSelect(graph, feats, i) ==
    checkDependents(graph,
        enableDependencies(graph, [feats EXCEPT ![i].Selected = TRUE], feats[i].Name))

\* Space whose select branch enables the requirements and leaves the flag
\* of the feature itself as it was.
ToggleForgetsFlag(graph, feats, i) ==
    IF feats[i].Selected
    THEN checkDependents(graph, [feats EXCEPT ![i].Selected = FALSE])
    ELSE checkDependents(graph, enableDependencies(graph, feats, feats[i].Name))

\* The feature list after Space on the feature at index i (from 1).
Toggle(graph, feats, i) ==
    IF feats[i].Selected
    THEN checkDependents(graph, [feats EXCEPT ![i].Selected = FALSE])
    ELSE onSelect(graph, feats, i)

\* The toggle taking the warning before the dependencies are resolved.
ToggleFeatureWarnsFirst ==
    /\ features' = Toggle(featureDependencies, features, featureFocus + 1)
    /\ warning' = getDependencyWarning(
                      featureDependencies,
                      [features EXCEPT ![featureFocus + 1].Selected = ~@])
    /\ UNCHANGED <<state, textVars, envState, featureFocus, featureDependencies, viewVars,
                   err, message, quit, taskVars, authVars, scaffoldFS>>

\* tea.KeySpace in StateFeatures
ToggleFeature ==
    /\ features' = Toggle(featureDependencies, features, featureFocus + 1)
    /\ warning' = getDependencyWarning(featureDependencies, features')
    /\ UNCHANGED <<state, textVars, envState, featureFocus, featureDependencies, viewVars,
                   err, message, quit, taskVars, authVars, scaffoldFS>>

\* Space toggling on the Processing screen as well.
KeySpaceAnywhere ==
    /\ ~quit
    /\ IF state \in {"Features", "Processing"}
       THEN edits < MaxEdits /\ edits' = edits + 1 /\ ToggleFeature
       ELSE UNCHANGED vars

KeySpace ==
    /\ ~quit
    /\ IF state = "Features"
       THEN edits < MaxEdits /\ edits' = edits + 1 /\ ToggleFeature
       ELSE UNCHANGED vars

\* maxInputs of the Tab handlers
MaxInputs == CASE state = "ProjectName" -> 1 [] state = "ModuleName" -> 2 [] OTHER -> 3

KeyTab ==
    /\ ~quit
    /\ IF state \in InputStates
       THEN /\ edits < MaxEdits
            /\ edits' = edits + 1
            /\ focusIndex' = IF focusIndex + 1 >= MaxInputs THEN 0 ELSE focusIndex + 1
            /\ state' = state
       ELSE /\ state' = IF state = "EnvVars" /\ ~envEditing THEN "Confirm" ELSE state
            /\ UNCHANGED <<focusIndex, edits, authVars, scaffoldFS>>
    /\ UNCHANGED <<projectName, moduleName, projectPath, inputs, projectNameValid,
                   moduleNameValid, projectPathValid, envState, featVars, viewVars,
                   noteVars, quit, taskVars, authVars, scaffoldFS>>

KeyShiftTab ==
    /\ ~quit
    /\ IF state \in InputStates
       THEN /\ edits < MaxEdits
            /\ edits' = edits + 1
            /\ focusIndex' = IF focusIndex - 1 < 0 THEN MaxInputs - 1 ELSE focusIndex - 1
       ELSE UNCHANGED <<focusIndex, edits, authVars, scaffoldFS>>
    /\ UNCHANGED <<state, projectName, moduleName, projectPath, inputs, projectNameValid,
                   moduleNameValid, projectPathValid, envState, featVars, viewVars,
                   noteVars, quit, taskVars, authVars, scaffoldFS>>

\* envVars with key set to value
SetEnv(env, key, value) ==
    [k \in DOMAIN env \cup {key} |-> IF k = key THEN value ELSE env[k]]

\* Model.View: the view function that renders the state.
View ==
    CASE state = "MainMenu" -> "viewMainMenu"
      [] state = "Welcome" -> IF message # NoMessage THEN "viewHelp" ELSE "viewWelcome"
      [] state = "ProjectName" -> "viewProjectName"
      [] state = "ModuleName" -> "viewModuleName"
      [] state = "ProjectPath" -> "viewProjectPath"
      [] state = "Features" -> "viewFeatures"
      [] state = "EnvVars" -> "viewEnvVars"
      [] state = "Confirm" -> "viewConfirm"
      [] state = "Processing" -> "viewProcessing"
      [] state = "Success" -> "viewSuccess"
      [] state = "Error" -> "viewError"
      [] OTHER -> ""

\* Enter in MainMenu with Help shown in the state of the menu.
EnterMainMenuHelpStays ==
    /\ state = "MainMenu"
    /\ menuFocus < Len(menuItems)
    /\ state' = IF menuItems[menuFocus + 1] = "create" THEN "Welcome" ELSE state
    /\ message' = IF menuItems[menuFocus + 1] = "help" THEN HelpText ELSE message
    /\ warning' = IF menuItems[menuFocus + 1] = "help" THEN HelpWarning ELSE warning
    /\ quit' = (menuItems[menuFocus + 1] = "exit")
    /\ UNCHANGED <<textVars, envState, featVars, viewVars, err, taskVars, authVars, scaffoldFS>>

\* The Enter handler of each state.  focused: the input the handler focuses.
EnterMainMenu ==
    /\ state = "MainMenu"
    /\ menuFocus < Len(menuItems)
    /\ state' = IF menuItems[menuFocus + 1] \in {"create", "help"} THEN "Welcome" ELSE state
    /\ message' = IF menuItems[menuFocus + 1] = "help" THEN HelpText ELSE message
    /\ warning' = IF menuItems[menuFocus + 1] = "help" THEN HelpWarning ELSE warning
    /\ quit' = (menuItems[menuFocus + 1] = "exit")
    /\ UNCHANGED <<textVars, envState, featVars, viewVars, err, taskVars, authVars, scaffoldFS>>

EnterWelcome ==
    /\ state = "Welcome"
    /\ state' = "ProjectName"
    /\ focusIndex' = 0
    /\ UNCHANGED <<projectName, moduleName, projectPath, inputs, projectNameValid,
                   moduleNameValid, projectPathValid, envState, featVars, viewVars,
                   noteVars, quit, taskVars, authVars, scaffoldFS>>

\* Enter in ProjectName advancing without asking the validator.
EnterProjectNameUnchecked ==
    /\ state = "ProjectName"
    /\ projectName' = TrimSpace(inputs[1])
    /\ IF projectName' = <<>>
       THEN /\ err' = "project name is required"
            /\ state' = "Error"
            /\ UNCHANGED <<projectNameValid, focusIndex, inputs, authVars, scaffoldFS>>
       ELSE /\ projectNameValid' = TRUE
            /\ state' = "ModuleName"
            /\ focusIndex' = 1
            /\ inputs' = [inputs EXCEPT ![2] = <<>>]
            /\ err' = err
    /\ UNCHANGED <<moduleName, projectPath, moduleNameValid, projectPathValid, envState,
                   featVars, viewVars, message, warning, quit, taskVars, authVars, scaffoldFS>>

EnterProjectName ==
    /\ state = "ProjectName"
    /\ projectName' = TrimSpace(inputs[1])
    /\ IF projectName' = <<>>
       THEN /\ err' = "project name is required"
            /\ state' = "Error"
            /\ UNCHANGED <<projectNameValid, focusIndex, inputs, authVars, scaffoldFS>>
       ELSE IF ~isValidProjectName(projectName')
       THEN /\ err' = "invalid format: use lowercase, numbers, hyphens, underscores"
            /\ state' = "Error"
            /\ UNCHANGED <<projectNameValid, focusIndex, inputs, authVars, scaffoldFS>>
       ELSE /\ projectNameValid' = TRUE
            /\ state' = "ModuleName"
            /\ focusIndex' = 1
            /\ inputs' = [inputs EXCEPT ![2] = <<>>]
            /\ err' = err
    /\ UNCHANGED <<moduleName, projectPath, moduleNameValid, projectPathValid, envState,
                   featVars, viewVars, message, warning, quit, taskVars, authVars, scaffoldFS>>

\* Enter in ModuleName asking the validator before the default is put in.
EnterModuleNameChecksFirst ==
    /\ state = "ModuleName"
    /\ moduleName' = IF TrimSpace(inputs[2]) = <<>> THEN ModulePrefix \o projectName
                     ELSE TrimSpace(inputs[2])
    /\ IF ~isValidModuleName(TrimSpace(inputs[2]))
       THEN /\ err' = "invalid module format: use 'domain.com/org/project'"
            /\ state' = "Error"
            /\ UNCHANGED <<moduleNameValid, focusIndex, inputs, authVars, scaffoldFS>>
       ELSE /\ moduleNameValid' = TRUE
            /\ state' = "ProjectPath"
            /\ focusIndex' = 2
            /\ inputs' = [inputs EXCEPT ![3] = SetValue(<<".">>, CharLimit[3])]
            /\ err' = err
    /\ UNCHANGED <<projectName, projectPath, projectNameValid, projectPathValid, envState,
                   featVars, viewVars, message, warning, quit, taskVars, authVars, scaffoldFS>>

EnterModuleName ==
    /\ state = "ModuleName"
    /\ moduleName' = IF TrimSpace(inputs[2]) = <<>> THEN ModulePrefix \o projectName
                     ELSE TrimSpace(inputs[2])
    /\ IF ~isValidModuleName(moduleName')
       THEN /\ err' = "invalid module format: use 'domain.com/org/project'"
            /\ state' = "Error"
            /\ UNCHANGED <<moduleNameValid, focusIndex, inputs, authVars, scaffoldFS>>
       ELSE /\ moduleNameValid' = TRUE
            /\ state' = "ProjectPath"
            /\ focusIndex' = 2
            /\ inputs' = [inputs EXCEPT ![3] = SetValue(<<".">>, CharLimit[3])]
            /\ err' = err
    /\ UNCHANGED <<projectName, projectPath, projectNameValid, projectPathValid, envState,
                   featVars, viewVars, message, warning, quit, taskVars, authVars, scaffoldFS>>

\* Enter in ProjectPath that stores the path without validating it.
EnterProjectPathUnchecked ==
    /\ state = "ProjectPath"
    /\ projectPath' = IF TrimSpace(inputs[3]) = <<>> THEN <<".">> ELSE TrimSpace(inputs[3])
    /\ projectPathValid' = TRUE
    /\ state' = "Features"
    /\ featureFocus' = 0
    /\ err' = err
    /\ UNCHANGED <<projectName, moduleName, inputs, focusIndex, projectNameValid,
                   moduleNameValid, envState, features, featureDependencies, viewVars,
                   message, warning, quit, taskVars, authVars, scaffoldFS>>

EnterProjectPath ==
    /\ state = "ProjectPath"
    /\ projectPath' = IF TrimSpace(inputs[3]) = <<>> THEN <<".">> ELSE TrimSpace(inputs[3])
    /\ IF ~isValidPath(projectPath')
       THEN /\ err' = "invalid path: use relative path like '.' or './projects'"
            /\ state' = "Error"
            /\ UNCHANGED <<projectPathValid, featureFocus, authVars, scaffoldFS>>
       ELSE /\ projectPathValid' = TRUE
            /\ state' = "Features"
            /\ featureFocus' = 0
            /\ err' = err
    /\ UNCHANGED <<projectName, moduleName, inputs, focusIndex, projectNameValid,
                   moduleNameValid, envState, features, featureDependencies, viewVars,
                   message, warning, quit, taskVars, authVars, scaffoldFS>>

\* Enter in Features going to Confirm, past the environment screen.
EnterFeaturesToConfirm ==
    /\ state = "Features"
    /\ state' = "Confirm"
    /\ envFocus' = 0
    /\ UNCHANGED <<textVars, envVars, envEditing, envInput, featVars, viewVars, noteVars,
                   quit, taskVars, authVars, scaffoldFS>>

EnterFeatures ==
    /\ state = "Features"
    /\ state' = "EnvVars"
    /\ envFocus' = 0
    /\ UNCHANGED <<textVars, envVars, envEditing, envInput, featVars, viewVars, noteVars,
                   quit, taskVars, authVars, scaffoldFS>>

EnterEnvVars ==
    /\ state = "EnvVars"
    /\ IF envEditing
       THEN /\ edits < MaxEdits
            /\ edits' = edits + 1
            /\ envVars' = IF envFocus < Len(envKeys)
                          THEN SetEnv(envVars, envKeys[envFocus + 1], envInput)
                          ELSE envVars
            /\ envEditing' = FALSE
            /\ envInput' = <<>>
       ELSE /\ edits' = edits
            /\ IF envFocus < Len(envKeys)
               THEN /\ envInput' =
                          SetValue(IF envKeys[envFocus + 1] \in DOMAIN envVars
                                   THEN envVars[envKeys[envFocus + 1]]
                                   ELSE EnvDefault(envKeys[envFocus + 1], projectName),
                                   EnvCharLimit)
                    /\ envEditing' = TRUE
               ELSE UNCHANGED <<envInput, envEditing, authVars, scaffoldFS>>
            /\ envVars' = envVars
    /\ UNCHANGED <<state, textVars, envFocus, featVars, viewVars, noteVars, quit, taskVars, authVars, scaffoldFS>>

\* The arguments createProject would be called with now.
Shown == [projectName |-> projectName, moduleName |-> moduleName,
          projectPath |-> projectPath,
          selected |-> {features[i].Name : i \in {j \in 1..Len(features) : features[j].Selected}}]

\* processScaffold() as a command: a task at its first instruction.  For
\* the record it keeps what the wizard showed when it was started, the
\* arguments createProject was called with and the operations that failed.
NewTask ==
    [pc |-> "start", selectedFeatures |-> <<>>, err |-> "",
     shown |-> Shown, args |-> <<>>, failed |-> {}]

EnterConfirm ==
    /\ state = "Confirm"
    /\ Len(tasks) < MaxRuns
    /\ state' = "Processing"
    /\ tasks' = Append(tasks, NewTask)
    /\ UNCHANGED <<textVars, envState, featVars, viewVars, noteVars, quit, queue, fs, authVars, scaffoldFS>>

\* Enter in Error that also puts the features back to their defaults.
EnterErrorResetsFeatures ==
    /\ state = "Error"
    /\ state' = "Welcome"
    /\ inputs' = <<<<>>, <<>>, <<>>>>
    /\ projectName' = <<>>
    /\ moduleName' = <<>>
    /\ projectPath' = <<".">>
    /\ projectNameValid' = FALSE
    /\ moduleNameValid' = FALSE
    /\ projectPathValid' = FALSE
    /\ err' = ""
    /\ focusIndex' = 0
    /\ features' = FeatureCatalog
    /\ UNCHANGED <<envState, featureFocus, featureDependencies, viewVars, message, warning,
                   quit, taskVars, authVars, scaffoldFS>>

\* Enter in Error that keeps the names collected so far.
EnterErrorKeeps ==
    /\ state = "Error"
    /\ state' = "Welcome"
    /\ inputs' = <<<<>>, <<>>, <<>>>>
    /\ projectPath' = <<".">>
    /\ projectNameValid' = FALSE
    /\ moduleNameValid' = FALSE
    /\ projectPathValid' = FALSE
    /\ err' = ""
    /\ focusIndex' = 0
    /\ UNCHANGED <<projectName, moduleName, envState, featVars, viewVars, message, warning,
                   quit, taskVars, authVars, scaffoldFS>>

\* Enter in Error going to the first input state, past Welcome.
EnterErrorToProjectName ==
    /\ state = "Error"
    /\ state' = "ProjectName"
    /\ inputs' = <<<<>>, <<>>, <<>>>>
    /\ projectName' = <<>>
    /\ moduleName' = <<>>
    /\ projectPath' = <<".">>
    /\ projectNameValid' = FALSE
    /\ moduleNameValid' = FALSE
    /\ projectPathValid' = FALSE
    /\ err' = ""
    /\ focusIndex' = 0
    /\ UNCHANGED <<envState, featVars, viewVars, message, warning, quit, taskVars, authVars, scaffoldFS>>

EnterError ==
    /\ state = "Error"
    /\ state' = "Welcome"
    /\ inputs' = <<<<>>, <<>>, <<>>>>
    /\ projectName' = <<>>
    /\ moduleName' = <<>>
    /\ projectPath' = <<".">>
    /\ projectNameValid' = FALSE
    /\ moduleNameValid' = FALSE
    /\ projectPathValid' = FALSE
    /\ err' = ""
    /\ focusIndex' = 0
    /\ UNCHANGED <<envState, featVars, viewVars, message, warning, quit, taskVars, authVars, scaffoldFS>>

EnterSuccess ==
    /\ state = "Success"
    /\ quit' = TRUE
    /\ UNCHANGED <<state, textVars, envState, featVars, viewVars, noteVars, taskVars, authVars, scaffoldFS>>

\* Enter in Processing starting the command again.
EnterStartsAgain ==
    /\ state = "Processing"
    /\ Len(tasks) < MaxRuns
    /\ tasks' = Append(tasks, NewTask)
    /\ UNCHANGED <<state, textVars, envState, featVars, viewVars, noteVars, quit, queue, fs, authVars, scaffoldFS>>

\* Enter in Processing going back to Confirm.
EnterLeaves ==
    /\ state = "Processing"
    /\ state' = "Confirm"
    /\ UNCHANGED <<textVars, envState, featVars, viewVars, noteVars, quit, taskVars, authVars, scaffoldFS>>

\* States whose Enter has no case: nothing changes.
EnterIgnored ==
    /\ state = "Processing"
    /\ UNCHANGED <<state, textVars, envState, featVars, viewVars, noteVars, quit, taskVars, authVars, scaffoldFS>>

KeyEnter ==
    /\ ~quit
    /\ CASE state = "MainMenu" -> EnterMainMenu /\ edits' = edits
         [] state = "Welcome" -> EnterWelcome /\ edits' = edits
         [] state = "ProjectName" -> EnterProjectName /\ edits' = edits
         [] state = "ModuleName" -> EnterModuleName /\ edits' = edits
         [] state = "ProjectPath" -> EnterProjectPath /\ edits' = edits
         [] state = "Features" -> EnterFeatures /\ edits' = edits
         [] state = "EnvVars" -> EnterEnvVars
         [] state = "Confirm" -> EnterConfirm /\ edits' = edits
         [] state = "Error" -> EnterError /\ edits' = edits
         [] state = "Success" -> EnterSuccess /\ edits' = edits
         [] OTHER -> EnterIgnored /\ edits' = edits

\* A key that carries one rune: 'q' leaves the final screens, any rune goes
\* to the focused text input of an input state or to the value being edited.
KeyRunes ==
    /\ ~quit
    /\ \E r \in Runes :
          IF r = "q" /\ state \in {"Success", "Error"}
          THEN /\ quit' = TRUE
               /\ UNCHANGED <<inputs, envInput, edits, authVars, scaffoldFS>>
          ELSE IF state \in InputStates
          THEN /\ edits < MaxEdits
               /\ edits' = edits + 1
               /\ inputs' = IF focusIndex < Len(inputs)
                            THEN [inputs EXCEPT ![focusIndex + 1] = Insert(@, r, CharLimit[focusIndex + 1])]
                            ELSE inputs
               /\ UNCHANGED <<quit, envInput, authVars, scaffoldFS>>
          ELSE IF state = "EnvVars" /\ envEditing
          THEN /\ edits < MaxEdits
               /\ edits' = edits + 1
               /\ envInput' = Insert(envInput, r, EnvCharLimit)
               /\ UNCHANGED <<quit, inputs, authVars, scaffoldFS>>
          ELSE UNCHANGED <<quit, inputs, envInput, edits, authVars, scaffoldFS>>
    /\ UNCHANGED <<state, projectName, moduleName, projectPath, focusIndex,
                   projectNameValid, moduleNameValid, projectPathValid, envVars, envFocus,
                   envEditing, featVars, viewVars, noteVars, taskVars, authVars, scaffoldFS>>

KeyBackspace ==
    /\ ~quit
    /\ inputs' = IF state \in InputStates /\ focusIndex < Len(inputs)
                 THEN [inputs EXCEPT ![focusIndex + 1] = DeleteLast(@)]
                 ELSE inputs
    /\ envInput' = IF state = "EnvVars" /\ envEditing THEN DeleteLast(envInput)
                   ELSE envInput
    /\ UNCHANGED <<state, projectName, moduleName, projectPath, focusIndex,
                   projectNameValid, moduleNameValid, projectPathValid, envVars, envFocus,
                   envEditing, featVars, viewVars, noteVars, quit, taskVars, edits,
                   authVars, scaffoldFS>>

\* spinner.TickMsg: only the spinner's frame changes, which is not part of
\* this model.
SpinnerTick ==
    /\ ~quit
    /\ UNCHANGED vars

\* ------------------------------------------------------ background command

\* The goroutine of the command: the loop that reads m.features,
TaskReadFeatures ==
    /\ ~quit
    /\ \E t \in 1..Len(tasks) :
          /\ tasks[t].pc = "start"
          /\ tasks' = [tasks EXCEPT ![t].pc = "read",
                          ![t].selectedFeatures =
                              [n \in {features[i].Name : i \in 1..Len(features)} |->
                                  IsSelected(features, n)]]
    /\ UNCHANGED <<state, textVars, envState, featVars, viewVars, noteVars, quit, queue,
                   fs, edits, authVars, scaffoldFS>>

\* the call of createProject with the fields of m as they are then,
TaskCreateProject ==
    /\ ~quit
    /\ UNCHANGED <<state, textVars, envState, featVars, viewVars, noteVars, quit, queue,
                   edits, authVars, scaffoldFS>>
    /\ \E t \in 1..Len(tasks) :
          /\ tasks[t].pc = "read"
          /\ \E faults \in FaultSets :
                \E r \in {createProject(fs, projectName, moduleName, projectPath,
                                          tasks[t].selectedFeatures, faults, t)} :
                    /\ fs' = r.fs
                    /\ tasks' = [tasks EXCEPT
                           ![t].pc = "ran",
                           ![t].err = r.err,
                           ![t].args = <<projectName, moduleName, projectPath>>,
                           ![t].failed = r.failed]

\* A command whose message is sent twice.
TaskReturnTwice ==
    /\ ~quit
    /\ \E t \in 1..Len(tasks) :
          /\ tasks[t].pc = "ran"
          /\ tasks' = [tasks EXCEPT ![t].pc = "done"]
          /\ LET msg == IF tasks[t].err # ""
                        THEN [Message |-> NoMessage, Err |-> tasks[t].err]
                        ELSE [Message |-> CreatedMessage(projectName), Err |-> ""]
             IN  queue' = queue \o <<msg, msg>>
    /\ UNCHANGED <<state, textVars, envState, featVars, viewVars, noteVars, quit, fs,
                   edits, authVars, scaffoldFS>>

\* and the message it returns, which the runtime sends to the event loop.
TaskReturn ==
    /\ ~quit
    /\ \E t \in 1..Len(tasks) :
          /\ tasks[t].pc = "ran"
          /\ tasks' = [tasks EXCEPT ![t].pc = "done"]
          /\ queue' = Append(queue,
                        IF tasks[t].err # ""
                        THEN [Message |-> NoMessage, Err |-> tasks[t].err]
                        ELSE [Message |-> CreatedMessage(projectName), Err |-> ""])
    /\ UNCHANGED <<state, textVars, envState, featVars, viewVars, noteVars, quit, fs,
                   edits, authVars, scaffoldFS>>

\* Update(ProcessCompleteMsg) that shows Success whatever the message holds.
ProcessCompleteNoErr ==
    /\ ~quit
    /\ queue # <<>>
    /\ queue' = Tail(queue)
    /\ message' = Head(queue).Message /\ state' = "Success" /\ err' = err
    /\ UNCHANGED <<textVars, envState, featVars, viewVars, warning, quit, tasks, fs,
                   edits, authVars, scaffoldFS>>

\* Update(ProcessCompleteMsg), in whatever state the wizard is
ProcessComplete ==
    /\ ~quit
    /\ queue # <<>>
    /\ queue' = Tail(queue)
    /\ IF Head(queue).Err # ""
       THEN err' = Head(queue).Err /\ state' = "Error" /\ message' = message
       ELSE message' = Head(queue).Message /\ state' = "Success" /\ err' = err
    /\ UNCHANGED <<textVars, envState, featVars, viewVars, warning, quit, tasks, fs,
                   edits, authVars, scaffoldFS>>

Next ==
    \/ WindowSize
    \/ KeyCtrlC
    \/ KeyUp
    \/ KeyDown
    \/ KeyEscape
    \/ KeySpace
    \/ KeyTab
    \/ KeyShiftTab
    \/ KeyEnter
    \/ KeyRunes
    \/ KeyBackspace
    \/ SpinnerTick
    \/ TaskReadFeatures
    \/ TaskCreateProject
    \/ TaskReturn
    \/ ProcessComplete

Spec == Init /\ [][Next]_vars

\* The runtime runs a started command to its end and hands its message to
\* Update: the next of these steps, of which one at most is enabled, is
\* taken.
Deliver == TaskReadFeatures \/ TaskCreateProject \/ TaskReturn \/ ProcessComplete

FairSpec == Spec /\ WF_vars(Deliver)

\* ------------------------------------------------- the resolver on its own

\* The wizard on the feature screen after the straight path: name "q",
\* default module and path.
AtFeatures ==
    /\ state = "Features"
    /\ projectName = <<"q">>
    /\ moduleName = ModulePrefix \o <<"q">>
    /\ projectPath = <<".">>
    /\ envVars = <<>>
    /\ envFocus = 0
    /\ envEditing = FALSE
    /\ envInput = <<>>
    /\ inputs = <<<<"q">>, <<>>, <<".">>>>
    /\ focusIndex = 2
    /\ width = 80
    /\ height = 24
    /\ featureFocus = 0
    /\ menuFocus = 0
    /\ err = ""
    /\ message = NoMessage
    /\ warning = NoWarning
    /\ projectNameValid = TRUE
    /\ moduleNameValid = TRUE
    /\ projectPathValid = TRUE
    /\ quit = FALSE
    /\ tasks = <<>>
    /\ queue = <<>>
    /\ fs = <<>>
    /\ edits = 1
    /\ refreshTokens = <<>>
    /\ calls = <<>>
    /\ scaffoldFS = EmbeddedScaffold

\* The first n features of the catalog, all selected.
Catalog(n) == [i \in 1..n |-> [FeatureCatalog[i] EXCEPT !.Selected = TRUE]]

NamesOf(feats) == {feats[i].Name : i \in 1..Len(feats)}

\* The names of set in the order of the list feats.
InOrder(feats, set) ==
    LET picked == SelectSeq(feats, LAMBDA f : f.Name \in set)
    IN  [k \in 1..Len(picked) |-> picked[k].Name]

\* The names reached from the names of set in at most n steps of requires.
RECURSIVE Reach(_, _, _)
Reach(requires, set, n) ==
    IF n = 0 THEN set
    ELSE Reach(requires, set \cup UNION {requires[x] : x \in set}, n - 1)

Acyclic(requires) ==
    \A x \in DOMAIN requires :
        x \notin Reach(requires, requires[x], Cardinality(DOMAIN requires))

\* Every acyclic dependency graph over the features of feats.
Graphs(feats) ==
    {[x \in NamesOf(feats) |-> InOrder(feats, requires[x])] :
        requires \in {r \in [NamesOf(feats) -> SUBSET NamesOf(feats)] : Acyclic(r)}}

ResolverInit ==
    /\ AtFeatures
    /\ \/ features = FeatureCatalog /\ featureDependencies = CatalogDependencies
       \/ /\ features = Catalog(MaxFeatures)
          /\ featureDependencies \in Graphs(Catalog(MaxFeatures))

FeaturesSpace == state = "Features" /\ ToggleFeature /\ UNCHANGED edits

FeaturesUp == state = "Features" /\ MoveCursor(-1) /\ UNCHANGED edits

FeaturesDown == state = "Features" /\ MoveCursor(1) /\ UNCHANGED edits

ResolverNext == FeaturesSpace \/ FeaturesUp \/ FeaturesDown

SpecResolver == ResolverInit /\ [][ResolverNext]_vars

\* ----------------------------------------------- the validators on their own

\* The characters tried: one or two of each class of the patterns, and
\* some of none.
Alphabet == {"q", "Q", "0", "-", "_", ".", "/", " "}

\* Every text of at most n characters of the alphabet.
Typed(n) == UNION {[1..k -> Alphabet] : k \in 0..n}

\* Texts one below, at and one above the limit of the project name, ending
\* with a character the name allows or with one it does not.
LongNames ==
    {[i \in 1..n |-> IF i = n THEN c ELSE "q"] :
        n \in {ProjectNameLimit - 1, ProjectNameLimit, ProjectNameLimit + 1},
        c \in {"q", "Q"}}

Candidates == Typed(MaxLen) \cup LongNames

\* Paths of more segments than the typed ones reach, well formed and not.
LongPaths ==
    {<<".", ".", "/", "q", "/", "Q", "0">>, <<".", "/", "q", ".", "q", "/", "-">>,
     <<"q", "/", "q", "/", "q", "/", "q">>, <<".", ".", "/", "q", "/">>,
     <<".", ".", "/", "/", "q">>, <<"q", "/", "q", "/", "/", "q">>,
     <<".", ".", "/", ".", ".", "/", "q">>, <<"q", "/", "q", " ", "q">>}

PathCandidates == Typed(MaxPathLen) \cup LongPaths

\* The wizard in an input state with a candidate in the input of the
\* state: in ProjectName with nothing collected, in ModuleName with any
\* accepted project name, in ProjectPath with a candidate path after the
\* name "q" and the default module.
ValidatorsInit ==
    /\ envVars = <<>>
    /\ envFocus = 0
    /\ envEditing = FALSE
    /\ envInput = <<>>
    /\ width = 80
    /\ height = 24
    /\ features = FeatureCatalog
    /\ featureDependencies = CatalogDependencies
    /\ featureFocus = 0
    /\ menuFocus = 0
    /\ err = ""
    /\ message = NoMessage
    /\ warning = NoWarning
    /\ projectPath = <<".">>
    /\ projectPathValid = FALSE
    /\ quit = FALSE
    /\ tasks = <<>>
    /\ queue = <<>>
    /\ fs = <<>>
    /\ edits = 0
    /\ refreshTokens = <<>>
    /\ calls = <<>>
    /\ scaffoldFS = EmbeddedScaffold
    /\ \E text \in Candidates \cup PathCandidates :
          \/ /\ text \in Candidates
             /\ state = "ProjectName"
             /\ focusIndex = 0
             /\ inputs = <<text, <<>>, <<>>>>
             /\ projectName = <<>>
             /\ moduleName = <<>>
             /\ projectNameValid = FALSE
             /\ moduleNameValid = FALSE
          \/ /\ text \in Candidates
             /\ state = "ModuleName"
             /\ focusIndex = 1
             /\ \E name \in {c \in Candidates : isValidProjectName(c)} :
                   /\ inputs = <<name, text, <<>>>>
                   /\ projectName = name
             /\ moduleName = <<>>
             /\ projectNameValid = TRUE
             /\ moduleNameValid = FALSE
          \/ /\ text \in PathCandidates
             /\ state = "ProjectPath"
             /\ focusIndex = 2
             /\ inputs = <<<<"q">>, <<>>, text>>
             /\ projectName = <<"q">>
             /\ moduleName = ModulePrefix \o <<"q">>
             /\ projectNameValid = TRUE
             /\ moduleNameValid = TRUE

\* Enter in the input state.
ValidatorsEnter == state \in InputStates /\ KeyEnter

SpecValidators == ValidatorsInit /\ [][ValidatorsEnter]_vars

\* ---------------------------------------- the run under every selection

\* The selections the feature screen can leave: every selected feature has
\* what it requires selected.
ConsistentSelections ==
    {feats \in {[i \in 1..Len(FeatureCatalog) |->
                    [FeatureCatalog[i] EXCEPT !.Selected = flags[i]]] :
                    flags \in [1..Len(FeatureCatalog) -> BOOLEAN]} :
        \A i \in 1..Len(feats) :
            feats[i].Selected =>
                \A k \in 1..Len(CatalogDependencies[feats[i].Name]) :
                    IsSelected(feats, CatalogDependencies[feats[i].Name][k])}

\* The embedded trees a run is tried with: the repository's, and two trees
\* holding files at the paths of the generated files and at one path in both
\* the base and a feature.
Scaffolds ==
    {EmbeddedScaffold,
     [base |-> (MainGoPath :> LoggerGoImport) @@ (LoggerGoPath :> LoggerGoImport),
      features |-> [id \in {"auth"} |->
                       (RoutesGoPath :> TokenRepoGoImport)
                           @@ (LoggerGoPath :> TokenRepoGoImport)]],
     [base |-> (RoutesGoPath :> LoggerGoImport),
      features |-> [id \in {"auth"} |-> (MainGoPath :> TokenRepoGoImport)]]}

\* The names a run is tried with, as the text inputs hold them: the module
\* left empty for the default, or typed.
RunNames ==
    {<<<<"q">>, <<>>>>,
     <<templateModule, <<>>>>,
     <<templateName, <<>>>>,
     <<<<"q">>, <<"q", "/">> \o templateName>>}

\* The environment values a run is tried with: none stored, and a secret
\* stored on the environment screen.
RunEnvVars == {<<>>, SetEnv(<<>>, "JWT_SECRET", <<"q">>)}

\* The names and the tree of a run: every name with the repository's tree,
\* every tree with the name "q".
RunCases ==
    {<<n, EmbeddedScaffold>> : n \in RunNames}
        \cup {<<<<<<"q">>, <<>>>>, tree>> : tree \in Scaffolds}

\* The wizard in Confirm with names the validators accept, the default
\* path, and any selection the feature screen can leave.
RunInit ==
    /\ state = "Confirm"
    /\ \E c \in RunCases :
          /\ projectName = c[1][1]
          /\ moduleName = IF c[1][2] = <<>> THEN ModulePrefix \o c[1][1] ELSE c[1][2]
          /\ inputs = <<c[1][1], c[1][2], <<".">>>>
          /\ scaffoldFS = c[2]
    /\ isValidProjectName(projectName)
    /\ isValidModuleName(moduleName)
    /\ projectPath = <<".">>
    /\ focusIndex = 2
    /\ envVars \in RunEnvVars
    /\ envFocus = 0
    /\ envEditing = FALSE
    /\ envInput = <<>>
    /\ width = 80
    /\ height = 24
    /\ features \in ConsistentSelections
    /\ featureDependencies = CatalogDependencies
    /\ featureFocus = 0
    /\ menuFocus = 0
    /\ err = ""
    /\ message = NoMessage
    /\ warning = NoWarning
    /\ projectNameValid = TRUE
    /\ moduleNameValid = TRUE
    /\ projectPathValid = TRUE
    /\ quit = FALSE
    /\ tasks = <<>>
    /\ queue = <<>>
    /\ fs = <<>>
    /\ edits = 0
    /\ refreshTokens = <<>>
    /\ calls = <<>>

\* Enter in Confirm
RunEnter == state = "Confirm" /\ KeyEnter

RunNext ==
    \/ RunEnter
    \/ TaskReadFeatures
    \/ TaskCreateProject
    \/ TaskReturn
    \/ ProcessComplete

SpecRun == RunInit /\ [][RunNext]_vars

\* -------------------------------------------------- the rewrite on its own

\* Paths of every kind the walk tells apart, and of kinds it passes over.
TreePaths ==
    {<<"a", ".", "g", "o">>,
     <<"c", ".", "y", "a", "m", "l">>,
     <<"c", ".", "y", "m", "l">>,
     <<"c", ".", "j", "s", "o", "n">>,
     <<"c", ".", "t", "o", "m", "l">>,
     <<"M", "a", "k", "e", "f", "i", "l", "e">>,
     <<"d", "/", "M", "a", "k", "e", "f", "i", "l", "e">>,
     <<"D", "o", "c", "k", "e", "r", "f", "i", "l", "e">>,
     <<"d", "/", "D", "o", "c", "k", "e", "r", "f", "i", "l", "e">>,
     <<"R", ".", "m", "d">>,
     <<"g", "o", ".", "s", "u", "m">>,
     <<"M", "a", "k", "e", "f", "i", "l", "e", ".", "i", "n">>,
     <<"a", ".", "g", "o", ".", "t", "x", "t">>,
     <<".", "e", "n", "v">>}

\* Contents naming the module, the project, both and neither.
TreeContents ==
    {<<"\"">> \o templateModule \o <<"/", "q", "\"">>,
     <<"=">> \o templateName,
     templateName \o <<" ">> \o templateModule \o <<" ">> \o templateName,
     <<"q">>}

\* The template trees tried: the files of scaffold/base, and every tree of
\* one file.
Trees == {EmbeddedScaffold.base} \cup {(p :> c) : p \in TreePaths, c \in TreeContents}

\* The project names and module names the rewrite is tried with.
RewriteNames == {<<"q">>, <<"q", "-", "0">>}
RewriteModules(name) == {ModulePrefix \o name, <<"q", "/", "q">>}

\* The wizard in Processing, the directory of the project holding a copied
\* tree that is not rewritten yet.
RewriteInit ==
    /\ state = "Processing"
    /\ projectPath = <<".">>
    /\ envVars = <<>>
    /\ envFocus = 0
    /\ envEditing = FALSE
    /\ envInput = <<>>
    /\ focusIndex = 2
    /\ width = 80
    /\ height = 24
    /\ features = FeatureCatalog
    /\ featureDependencies = CatalogDependencies
    /\ featureFocus = 0
    /\ menuFocus = 0
    /\ err = ""
    /\ message = NoMessage
    /\ warning = NoWarning
    /\ projectNameValid = TRUE
    /\ moduleNameValid = TRUE
    /\ projectPathValid = TRUE
    /\ quit = FALSE
    /\ tasks = <<>>
    /\ queue = <<>>
    /\ edits = 0
    /\ refreshTokens = <<>>
    /\ calls = <<>>
    /\ scaffoldFS = EmbeddedScaffold
    /\ \E name \in RewriteNames :
          /\ projectName = name
          /\ \E module \in RewriteModules(name) :
                /\ moduleName = module
                /\ inputs = <<name, module, <<".">>>>
          /\ \E tree \in Trees :
                fs = (ProjectDir(name, <<".">>) :>
                        [EmptyDir(1) EXCEPT !.base = "full", !.files = tree])

\* replaceModuleNames applied to the directory of the project.
Rewrite ==
    /\ \E faults \in FaultSets :
          fs' = replaceModuleNames(fs, ProjectDir(projectName, projectPath), projectName,
                                   moduleName, faults).fs
    /\ UNCHANGED <<state, textVars, envState, featVars, viewVars, noteVars, quit, tasks,
                   queue, edits, authVars, scaffoldFS>>

SpecRewrite == RewriteInit /\ [][Rewrite]_vars

\* ------------------------------------------- the refresh tokens of a server

\* What the wizard holds, which no call of the generated server touches.
wizardVars == <<state, textVars, envState, featVars, viewVars, noteVars, quit, taskVars,
                edits, scaffoldFS>>

\* The token strings a client may present: a token some call has issued,
\* named by the number of that call, or 0, a string no call issued.
Presentable ==
    {0} \cup {c \in 1..Len(calls) :
                /\ calls[c].op \in {"Login", "Refresh"}
                /\ calls[c].result = "ok"}

\* A row of refresh_tokens as TokenStore.Save writes it.
NewRow == [IsRevoked |-> FALSE, Expired |-> FALSE]

\* The calls that have returned.
Done == {c \in 1..Len(calls) : calls[c].pc = "done"}

\* A call of AuthService as it starts: before holds the calls that had
\* returned by then.
Call(op, token, pc) ==
    [op |-> op, token |-> token, pc |-> pc, result |-> "", before |-> Done]

\* AuthService.Login of a user whose password matches: the token pair is
\* generated and the refresh token saved.
Login ==
    /\ Len(calls) < MaxCalls
    /\ LET c == Len(calls) + 1
       IN  /\ calls' = Append(calls, [Call("Login", c, "done") EXCEPT !.result = "ok"])
           /\ refreshTokens' = (c :> NewRow) @@ refreshTokens
    /\ UNCHANGED wizardVars

\* A client calls AuthService.Refresh with the token t.
CallRefresh ==
    /\ Len(calls) < MaxCalls
    /\ \E t \in Presentable : calls' = Append(calls, Call("Refresh", t, "find"))
    /\ UNCHANGED <<wizardVars, refreshTokens>>

\* A client calls AuthService.Logout with the token t.
CallLogout ==
    /\ Len(calls) < MaxCalls
    /\ \E t \in Presentable : calls' = Append(calls, Call("Logout", t, "revoke"))
    /\ UNCHANGED <<wizardVars, refreshTokens>>

\* tokenRepo.FindByToken in TokenStore.Validate: the row of the token that
\* is neither revoked nor expired, or the error that ends Refresh.
FindByToken ==
    /\ \E c \in 1..Len(calls) :
          /\ calls[c].pc = "find"
          /\ LET t == calls[c].token
                 found == /\ t \in DOMAIN refreshTokens
                          /\ ~refreshTokens[t].IsRevoked
                          /\ ~refreshTokens[t].Expired
             IN  calls' = [calls EXCEPT
                     ![c].pc = IF found THEN "revoke" ELSE "done",
                     ![c].result = IF found THEN "" ELSE "unauthorized"]
    /\ UNCHANGED <<wizardVars, refreshTokens>>

\* tokenRepo.RevokeToken of the call c: every row of the token is set
\* revoked, revoked before or not, and no row at all is an error.  Refresh
\* answers the error as unauthorized, Logout as an internal error.
RevokeTokenOf(c) ==
    LET t == calls[c].token
        RowsAffected == IF t \in DOMAIN refreshTokens THEN 1 ELSE 0
    IN  /\ refreshTokens' = IF RowsAffected = 0 THEN refreshTokens
                            ELSE [refreshTokens EXCEPT ![t].IsRevoked = TRUE]
        /\ calls' = [calls EXCEPT
               ![c].pc = IF RowsAffected # 0 /\ calls[c].op = "Refresh"
                         THEN "save" ELSE "done",
               ![c].result = IF RowsAffected # 0
                             THEN (IF calls[c].op = "Refresh" THEN "" ELSE "ok")
                             ELSE (IF calls[c].op = "Refresh" THEN "unauthorized"
                                   ELSE "internal")]

\* The statement of RevokeToken run by a call that has reached it.
RevokeToken ==
    /\ \E c \in 1..Len(calls) : calls[c].pc = "revoke" /\ RevokeTokenOf(c)
    /\ UNCHANGED wizardVars

\* Refresh after Validate: the new pair is generated and the new refresh
\* token saved.
Save ==
    /\ \E c \in 1..Len(calls) :
          /\ calls[c].pc = "save"
          /\ refreshTokens' = (c :> NewRow) @@ refreshTokens
          /\ calls' = [calls EXCEPT ![c].pc = "done", ![c].result = "ok"]
    /\ UNCHANGED wizardVars

\* The clock passes the expires_at of a stored token.
Expire ==
    /\ \E t \in DOMAIN refreshTokens :
          /\ ~refreshTokens[t].Expired
          /\ refreshTokens' = [refreshTokens EXCEPT ![t].Expired = TRUE]
    /\ UNCHANGED <<wizardVars, calls>>

\* tokenRepo.DeleteExpiredTokens
DeleteExpiredTokens ==
    /\ \E t \in DOMAIN refreshTokens : refreshTokens[t].Expired
    /\ refreshTokens' = [t \in {u \in DOMAIN refreshTokens : ~refreshTokens[u].Expired}
                            |-> refreshTokens[t]]
    /\ UNCHANGED <<wizardVars, calls>>

\* The server before its first call, the wizard at rest.
TokensInit == Init

TokensNext ==
    \/ Login
    \/ CallRefresh
    \/ CallLogout
    \/ FindByToken
    \/ RevokeToken
    \/ Save
    \/ Expire
    \/ DeleteExpiredTokens

SpecTokens == TokensInit /\ [][TokensNext]_vars

\* ------------------------------------------------------------------ claims

\* The names f requires, as a set.
RequiredBy(graph, f) == {graph[f][k] : k \in 1..Len(graph[f])}

\* The features that require f, directly or through others.
Dependents(graph, f) ==
    {x \in DOMAIN graph :
        f \in Reach([y \in DOMAIN graph |-> RequiredBy(graph, y)], RequiredBy(graph, x),
                    Cardinality(DOMAIN graph))}

\* C1: after any sequence of toggles from the initial catalog, every
\* selected feature has each feature it requires selected as well.
C1_ResolverInvariant ==
    \A i \in 1..Len(features) :
        features[i].Selected =>
            \A d \in RequiredBy(featureDependencies, features[i].Name) :
                IsSelected(features, d)

\* C1 witness: toggles have left the initial selection, deselected a
\* feature and one that requires another is selected with it.
C1_Witness ==
    /\ features # FeatureCatalog
    /\ Len(features) = Len(FeatureCatalog)
    /\ IsSelected(features, "Podman")
    /\ IsSelected(features, "File Storage")
    /\ IsSelected(features, "Database")
    /\ ~IsSelected(features, "Authentication (JWT)")

\* C10: Space on a selected feature leaves it and every feature that
\* requires it, directly or through others, not selected.
C10_CascadingDeselect ==
    [][(FeaturesSpace /\ features[featureFocus + 1].Selected) =>
          \A j \in 1..Len(features) :
              features[j].Name \in
                    Dependents(featureDependencies, features[featureFocus + 1].Name)
                        \cup {features[featureFocus + 1].Name}
                  => ~features'[j].Selected]_vars

\* C10 witness: in a chain Database -> User Management -> Authentication
\* the cursor is on Authentication and all three are deselected.
C10_Witness ==
    /\ Len(features) = 3
    /\ featureDependencies["Database"] = <<"User Management">>
    /\ featureDependencies["User Management"] = <<"Authentication (JWT)">>
    /\ featureFocus = 0
    /\ \A i \in 1..3 : ~features[i].Selected


\* The operations that failed in the run of a task.
FailedOps(task) == {f.op : f \in task.failed}

\* projectDir of the createProject call a task made.
TaskDir(task) == ProjectDir(task.args[1], task.args[3])

\* createProject has returned in task t and its message is not sent yet.
Returned(t) == tasks[t].pc = "ran"

\* projectDir is there and task t made it.
Made(t) == TaskDir(tasks[t]) \in DOMAIN fs /\ fs[TaskDir(tasks[t])].by = t

C3_RollbackPolicy ==
    \A t \in 1..Len(tasks) : (Returned(t) /\ tasks[t].err # "") => ~Made(t)

\* C3 witness: a run that created projectDir and copied the base tree has
\* returned the error of generating main.go, and projectDir is gone.
C3_Witness ==
    /\ Len(tasks) = 1
    /\ Returned(1)
    /\ tasks[1].err = "failed to generate main.go"
    /\ FailedOps(tasks[1]) = {"main"}
    /\ TaskDir(tasks[1]) \notin DOMAIN fs

C5_ConflictNonDestructive ==
    [][\A t \in 1..Len(tasks) :
          (/\ tasks[t].pc = "read"
           /\ tasks'[t].pc = "ran"
           /\ ProjectDir(projectName, projectPath) \in DOMAIN fs
           /\ "abs" \notin FailedOps(tasks'[t])) =>
              fs' = fs /\ tasks'[t].err = "directory already exists"]_vars

\* C5 witness: the run found the directory someone else had made, returned
\* the conflict and the directory is as it was.
C5_Witness ==
    /\ Len(tasks) = 1
    /\ Returned(1)
    /\ tasks[1].err = "directory already exists"
    /\ TaskDir(tasks[1]) \in DOMAIN fs
    /\ fs[TaskDir(tasks[1])] = ForeignDir

\* C6 as stated: the command is started at most once in a session.
C6_StartedAtMostOnce == Len(tasks) <= 1

\* C6 amended: a command is started only by Enter in state Confirm, one at
\* a time: when it starts, every earlier command has delivered its message,
\* which carried an error and has been handled.
C6_StartedOnlyFromConfirm ==
    [][tasks' # tasks /\ Len(tasks') # Len(tasks) =>
          /\ KeyEnter
          /\ state = "Confirm"
          /\ state' = "Processing"
          /\ tasks' = Append(tasks, NewTask)
          /\ queue = <<>>
          /\ \A t \in 1..Len(tasks) : tasks[t].pc = "done" /\ tasks[t].err # ""]_vars

\* C6 witness: after an Error was acknowledged and the wizard walked
\* through again, a second command has been started.
C6_Witness ==
    /\ Len(tasks) = 2
    /\ tasks[2].pc = "start"
    /\ state = "Processing"

\* Task t has delivered its message and Update has handled it.
Handled(t) ==
    /\ t \in 1..Len(tasks)
    /\ tasks[t].pc = "done"
    /\ (t = Len(tasks) => queue = <<>>)

\* The message task t returns.
MsgOf(t) ==
    IF tasks[t].err # ""
    THEN [Message |-> NoMessage, Err |-> tasks[t].err]
    ELSE [Message |-> CreatedMessage(tasks[t].args[1]), Err |-> ""]

\* C7: every started command delivers one ProcessCompleteMsg and no more:
\* until the latest command has returned no message is waiting and the
\* wizard is in Processing, then its one message waits until Update takes
\* it; Update takes it in Processing and goes to Success with the message
\* stored when it carries no error, to Error with the error stored when it
\* does; and a started command's message is handed to Update unless the
\* program is ended first.
C7_ResultDelivery ==
    /\ [](\A t \in 1..Len(tasks) :
            /\ t < Len(tasks) => Handled(t)
            /\ t = Len(tasks) =>
                  IF tasks[t].pc = "done"
                  THEN \/ queue = <<MsgOf(t)>> /\ state = "Processing"
                       \/ queue = <<>> /\ state # "Processing"
                  ELSE queue = <<>> /\ state = "Processing")
    /\ [][ProcessComplete =>
            /\ state = "Processing"
            /\ Head(queue).Err = "" =>
                  state' = "Success" /\ message' = Head(queue).Message /\ err' = ""
            /\ Head(queue).Err # "" =>
                  state' = "Error" /\ err' = Head(queue).Err]_vars
    /\ (tasks # <<>> /\ ~Handled(Len(tasks))) ~> (Handled(Len(tasks)) \/ quit)

\* C7 witness: the one command has delivered its message, which carried no
\* error, and the wizard shows the confirmation.
C7_Witness ==
    /\ Len(tasks) = 1
    /\ Handled(1)
    /\ tasks[1].err = ""
    /\ state = "Success"
    /\ message = CreatedMessage(<<"q">>)

\* C8: in Processing every step other than the handling of the completion
\* message and Ctrl+C leaves the state at Processing, leaves projectName,
\* moduleName, projectPath and the features as they are and does not end
\* the program.
C8_ProcessingIgnoresInput ==
    [][(state = "Processing" /\ ~ProcessComplete /\ ~KeyCtrlC) =>
          /\ state' = "Processing"
          /\ UNCHANGED <<projectName, moduleName, projectPath, features, authVars, scaffoldFS>>
          /\ quit' = quit]_vars

\* C8 witness: the window was resized and the command has run while the
\* wizard stays in Processing.
C8_Witness ==
    /\ state = "Processing"
    /\ ~quit
    /\ Len(tasks) = 1
    /\ Returned(1)
    /\ width = 60
    /\ edits = MaxEdits

\* C9: no step taken in Confirm or Processing changes projectName,
\* moduleName, projectPath or a feature's selected flag, and what a command
\* reads (the features, then the arguments of createProject) is what the
\* wizard showed when the command was started.
C9_SnapshotUnchanged ==
    /\ [][(state \in {"Confirm", "Processing"}) =>
            UNCHANGED <<projectName, moduleName, projectPath, features, authVars, scaffoldFS>>]_vars
    /\ [](\A t \in 1..Len(tasks) :
            /\ tasks[t].pc # "start" =>
                  {n \in DOMAIN tasks[t].selectedFeatures : tasks[t].selectedFeatures[n]}
                      = tasks[t].shown.selected
            /\ tasks[t].pc \in {"ran", "done"} =>
                  tasks[t].args = <<tasks[t].shown.projectName, tasks[t].shown.moduleName,
                                    tasks[t].shown.projectPath>>)

\* C9 witness: a command started with a selection that is not the default
\* one has called createProject with the values the wizard still holds.
C9_Witness ==
    /\ Len(tasks) = 1
    /\ Returned(1)
    /\ state = "Processing"
    /\ "User Management" \notin tasks[1].shown.selected
    /\ ~tasks[1].selectedFeatures["User Management"]
    /\ tasks[1].args = <<projectName, moduleName, projectPath>>

\* The names of the selected features.
SelectedNames(feats) == {feats[i].Name : i \in {j \in 1..Len(feats) : feats[j].Selected}}

\* The features f requires, directly or through others.
Requirements(graph, f) ==
    Reach([y \in DOMAIN graph |-> RequiredBy(graph, y)], RequiredBy(graph, f),
          Cardinality(DOMAIN graph))

\* Every way of selecting the features of feats.
Selections(feats) ==
    {[i \in 1..Len(feats) |-> [feats[i] EXCEPT !.Selected = flags[i]]] :
        flags \in [1..Len(feats) -> BOOLEAN]}

\* C11: in every state the feature screen reaches, Space on any feature
\* that is not selected leaves selected exactly what was selected before,
\* the feature and everything it requires, directly or through others.
C11_CascadingSelect ==
    \A i \in 1..Len(features) :
        ~features[i].Selected =>
            SelectedNames(Toggle(featureDependencies, features, i)) =
                SelectedNames(features) \cup {features[i].Name}
                    \cup Requirements(featureDependencies, features[i].Name)

\* C11 witness: in a chain Database -> User Management -> Authentication
\* the cursor is on Database and all three are selected.
C11_Witness ==
    /\ Len(features) = 3
    /\ featureDependencies["Database"] = <<"User Management">>
    /\ featureDependencies["User Management"] = <<"Authentication (JWT)">>
    /\ featureFocus = 2
    /\ \A i \in 1..3 : features[i].Selected
    /\ warning = NoWarning

\* C12: in every state the feature screen reaches and for every cursor
\* position, Space leaves the focused feature's flag the negation of what
\* it was.
C12_DirectToggleWins ==
    \A i \in 1..Len(features) :
        Toggle(featureDependencies, features, i)[i].Selected = ~features[i].Selected

\* C12 witness: File Storage, which requires Database, is focused and no
\* longer selected while Database still is.
C12_Witness ==
    /\ Len(features) = Len(FeatureCatalog)
    /\ featureFocus = 3
    /\ ~IsSelected(features, "File Storage")
    /\ IsSelected(features, "Database")

\* C13: for every selection of the features and every feature,
\* enableDependencies returns within as many nested calls as there are
\* features and checkDependents within one more, after a select as after a
\* deselect, leaving what the resolver computes.
C13_ResolutionTerminates ==
    \A sel \in Selections(features) : \A i \in 1..Len(features) :
        LET on == [sel EXCEPT ![i].Selected = TRUE]
            off == [sel EXCEPT ![i].Selected = FALSE]
            e == enableDependenciesRun(featureDependencies, on, sel[i].Name, Len(features))
            c == checkDependentsRun(featureDependencies, e.feats, Len(features) + 1)
            d == checkDependentsRun(featureDependencies, off, Len(features) + 1)
        IN  /\ e.done
            /\ e.feats = enableDependencies(featureDependencies, on, sel[i].Name)
            /\ c.done
            /\ c.feats = onSelect(featureDependencies, sel, i)
            /\ d.done
            /\ d.feats = checkDependents(featureDependencies, off)

\* C13 witness: a chain as long as the catalog with the cursor on its top,
\* where selecting needs all the nested calls there is room for and the
\* deselection of the bottom has taken the rescan through every feature.
C13_Witness ==
    /\ Len(features) = MaxFeatures
    /\ \A i \in 1..Len(features) : ~features[i].Selected
    /\ ~enableDependenciesRun(featureDependencies, features,
                              features[featureFocus + 1].Name, Len(features) - 1).done
    /\ enableDependenciesRun(featureDependencies, features,
                             features[featureFocus + 1].Name, Len(features)).done

\* C14: for every selection of the features and every feature, the select
\* operation applied twice leaves the selection it leaves applied once.
C14_SelectIdempotent ==
    \A sel \in Selections(features) : \A i \in 1..Len(features) :
        LET once == onSelect(featureDependencies, sel, i)
        IN  SelectedNames(onSelect(featureDependencies, once, i)) = SelectedNames(once)

\* C14 witness: User Management is focused and neither it nor
\* Authentication is selected, so that selecting it changes two features.
C14_Witness ==
    /\ Len(features) = Len(FeatureCatalog)
    /\ featureDependencies = CatalogDependencies
    /\ featureFocus = 1
    /\ ~IsSelected(features, "User Management")
    /\ ~IsSelected(features, "Authentication (JWT)")
    /\ SelectedNames(onSelect(featureDependencies, features, 2))
          = SelectedNames(features) \cup {"User Management", "Authentication (JWT)"}

\* The state changes of the path through the wizard, as the states are
\* listed: without the environment screen.
ListedOrder ==
    {<<"MainMenu", "Welcome">>, <<"Welcome", "ProjectName">>,
     <<"ProjectName", "ModuleName">>, <<"ModuleName", "ProjectPath">>,
     <<"ProjectPath", "Features">>, <<"Features", "Confirm">>,
     <<"Confirm", "Processing">>, <<"Processing", "Success">>,
     <<"Processing", "Error">>}

\* The same with the environment screen between Features and Confirm.
VisitedOrder ==
    (ListedOrder \ {<<"Features", "Confirm">>})
        \cup {<<"Features", "EnvVars">>, <<"EnvVars", "Confirm">>}

\* The state changes of the error loop: a rejected field, the
\* acknowledgement.
ErrorLoop ==
    {<<"ProjectName", "Error">>, <<"ModuleName", "Error">>, <<"ProjectPath", "Error">>,
     <<"Error", "Welcome">>}

\* C15 as stated: every change of state follows the listed order (or the
\* error loop), and Enter in Features moves to Confirm.
C15_ListedHappyPath ==
    [][/\ state' # state => <<state, state'>> \in ListedOrder \cup ErrorLoop
       /\ (KeyEnter /\ state = "Features") => state' = "Confirm"]_vars

\* C15 amended: every change of state follows the order MainMenu, Welcome,
\* ProjectName, ModuleName, ProjectPath, Features, EnvVars, Confirm,
\* Processing, then Success or Error (or the error loop); Enter in Features
\* moves to EnvVars, and Confirm is entered by Tab in EnvVars while no
\* value is edited.
C15_HappyPathThroughEnvVars ==
    [][/\ state' # state => <<state, state'>> \in VisitedOrder \cup ErrorLoop
       /\ (KeyEnter /\ state = "Features") => state' = "EnvVars"
       /\ (state # "Confirm" /\ state' = "Confirm") =>
              KeyTab /\ state = "EnvVars" /\ ~envEditing]_vars

\* C15 witness: the wizard stands in Confirm with the three fields
\* accepted and no command started yet.
C15_Witness ==
    /\ state = "Confirm"
    /\ projectNameValid /\ moduleNameValid /\ projectPathValid
    /\ tasks = <<>>
    /\ envFocus = 0

\* The value Enter checks in an input state: the trimmed input, for an
\* empty one the module default or ".".
Entered ==
    CASE state = "ProjectName" -> TrimSpace(inputs[1])
      [] state = "ModuleName" ->
            IF TrimSpace(inputs[2]) = <<>> THEN ModulePrefix \o projectName
            ELSE TrimSpace(inputs[2])
      [] state = "ProjectPath" ->
            IF TrimSpace(inputs[3]) = <<>> THEN <<".">> ELSE TrimSpace(inputs[3])
      [] OTHER -> <<>>

\* What the validator of a state's field says of a value.
Accepts(st, value) ==
    CASE st = "ProjectName" -> isValidProjectName(value)
      [] st = "ModuleName" -> isValidModuleName(value)
      [] st = "ProjectPath" -> isValidPath(value)
      [] OTHER -> FALSE

\* The state after an input state, and the field that state stores as the
\* step leaves it.
Advance(st) ==
    CASE st = "ProjectName" -> "ModuleName"
      [] st = "ModuleName" -> "ProjectPath"
      [] st = "ProjectPath" -> "Features"
      [] OTHER -> st

Stored(st) ==
    CASE st = "ProjectName" -> projectName'
      [] st = "ModuleName" -> moduleName'
      [] st = "ProjectPath" -> projectPath'
      [] OTHER -> <<>>

\* C16 as stated: Enter in an input state goes by what the validator says
\* of the trimmed input.
C16_TrimmedInputDecides ==
    [][\A k \in 1..3 :
          (KeyEnter /\ state = InputOrder[k]) =>
              IF Accepts(state, TrimSpace(inputs[k]))
              THEN state' = Advance(state) /\ Stored(state) = TrimSpace(inputs[k])
              ELSE state' = "Error" /\ err' # ""]_vars

\* C16 amended: Enter in ProjectName, ModuleName or ProjectPath checks the
\* trimmed input, in place of an empty one the module default
\* (ModuleName) or "." (ProjectPath); a rejected value moves the wizard to
\* Error with an error set, an accepted one is stored and moves it to the
\* next state.
C16_FieldConfirmation ==
    [][(KeyEnter /\ state \in InputStates) =>
          IF Accepts(state, Entered)
          THEN state' = Advance(state) /\ Stored(state) = Entered /\ err' = err
          ELSE state' = "Error" /\ err' # ""]_vars

\* C16 witness: a project name with a character the validator rejects has
\* brought the wizard to Error.
C16_Witness ==
    /\ state = "Error"
    /\ projectName = <<"/">>
    /\ ~projectNameValid
    /\ err = "invalid format: use lowercase, numbers, hyphens, underscores"

\* C17: Enter in Error moves the wizard to Welcome with projectName and
\* moduleName empty, projectPath ".", the three inputs empty, the validity
\* flags false and no error stored.
C17_ErrorAcknowledged ==
    [][(KeyEnter /\ state = "Error") =>
          /\ state' = "Welcome"
          /\ projectName' = <<>>
          /\ moduleName' = <<>>
          /\ projectPath' = <<".">>
          /\ inputs' = <<<<>>, <<>>, <<>>>>
          /\ ~projectNameValid' /\ ~moduleNameValid' /\ ~projectPathValid'
          /\ err' = ""]_vars

\* C17 witness: the error of a command has been acknowledged: the wizard is
\* in Welcome with nothing collected.
C17_Witness ==
    /\ state = "Welcome"
    /\ Len(tasks) = 1
    /\ tasks[1].err # ""
    /\ Handled(1)
    /\ projectName = <<>>
    /\ err = ""

\* The errors of the validators and the input state each comes from.
ValidationErrors ==
    {"project name is required",
     "invalid format: use lowercase, numbers, hyphens, underscores",
     "invalid module format: use 'domain.com/org/project'",
     "invalid path: use relative path like '.' or './projects'"}

RejectedIn(e) ==
    CASE e = "invalid module format: use 'domain.com/org/project'" -> "ModuleName"
      [] e = "invalid path: use relative path like '.' or './projects'" -> "ProjectPath"
      [] OTHER -> "ProjectName"

\* C18 as stated: acknowledging a validation error returns the wizard to
\* the input state whose field was rejected.
C18_BackToSameInputState ==
    [][(KeyEnter /\ state = "Error" /\ err \in ValidationErrors) =>
          state' = RejectedIn(err)]_vars

\* C18 amended: a rejected field moves the wizard to Error without ending
\* the program, and acknowledging the error returns it to Welcome, whatever
\* the input state was, from where the fields are prompted again from the
\* first one.
C18_RepromptFromWelcome ==
    [][/\ (state \in InputStates /\ state' = "Error") =>
              err' \in ValidationErrors /\ quit' = quit
       /\ (KeyEnter /\ state = "Error" /\ err \in ValidationErrors) =>
              state' = "Welcome" /\ quit' = quit /\ inputs' = <<<<>>, <<>>, <<>>>>]_vars

\* C18 witness: a module name without a slash was rejected in ModuleName
\* and the wizard shows the error, the program running.
C18_Witness ==
    /\ state = "Error"
    /\ err = "invalid module format: use 'domain.com/org/project'"
    /\ projectName = <<"q">>
    /\ moduleName = <<"q">>
    /\ ~quit

\* C19: Enter in ModuleName with an input that is empty once trimmed
\* stores 'github.com/example/' followed by the stored projectName and
\* moves the wizard to ProjectPath, no error set; and the default made of
\* any text the project name validator accepts is accepted by the module
\* name validator.
C19_ModuleDefault ==
    /\ [](isValidProjectName(inputs[1]) => isValidModuleName(ModulePrefix \o inputs[1]))
    /\ [][(KeyEnter /\ state = "ModuleName" /\ TrimSpace(inputs[2]) = <<>>) =>
            /\ moduleName' = ModulePrefix \o projectName
            /\ isValidModuleName(moduleName')
            /\ state' = "ProjectPath"
            /\ err' = err]_vars

\* C19 witness: with a project name of the greatest length and a module
\* input of one space the wizard is in ProjectPath, the default stored.
C19_Witness ==
    /\ state = "ProjectPath"
    /\ Len(projectName) = ProjectNameLimit
    /\ inputs[2] = <<" ">>
    /\ moduleName = ModulePrefix \o projectName
    /\ moduleNameValid
    /\ err = ""

\* The law of the project name: not empty, at most 50 characters, each of
\* them a lower-case letter, a digit, "_" or "-".
ProjectNameLaw(text) ==
    /\ text # <<>>
    /\ Len(text) <= 50
    /\ \A i \in 1..Len(text) : text[i] \in Lower \cup Digit \cup {"_", "-"}

\* C20: isValidProjectName says of every text in the name input what the
\* law says, and Enter in ProjectName advances exactly when the law holds
\* of the trimmed input.
C20_ProjectNameLaw ==
    /\ [](isValidProjectName(inputs[1]) <=> ProjectNameLaw(inputs[1]))
    /\ [][(KeyEnter /\ state = "ProjectName") =>
            (state' = "ModuleName" <=> ProjectNameLaw(TrimSpace(inputs[1])))]_vars

\* C20 witness: a name of 51 lower-case letters has been rejected.
C20_Witness ==
    /\ state = "Error"
    /\ Len(projectName) = ProjectNameLimit + 1
    /\ AllIn(projectName, Lower)
    /\ err = "invalid format: use lowercase, numbers, hyphens, underscores"

\* The characters of a path segment.
SegmentLetters ==
    {"a", "b", "c", "d", "e", "f", "g", "h", "i", "j", "k", "l", "m", "n", "o", "p", "q",
     "r", "s", "t", "u", "v", "w", "x", "y", "z",
     "A", "B", "C", "D", "E", "F", "G", "H", "I", "J", "K", "L", "M", "N", "O", "P", "Q",
     "R", "S", "T", "U", "V", "W", "X", "Y", "Z",
     "0", "1", "2", "3", "4", "5", "6", "7", "8", "9", ".", "_", "-"}

\* After the first k characters of p come zero or more parts "/segment".
SegmentParts(p, k) ==
    /\ k < Len(p) => p[k + 1] = "/"
    /\ \A i \in (k + 1)..Len(p) :
          \/ p[i] \in SegmentLetters
          \/ p[i] = "/" /\ i < Len(p) /\ p[i + 1] \in SegmentLetters

\* One or two dots followed by zero or more parts "/segment".
DotsForm(p) ==
    \E k \in {1, 2} :
        /\ k <= Len(p)
        /\ \A i \in 1..k : p[i] = "."
        /\ SegmentParts(p, k)

\* A segment followed by zero or more parts "/segment".
PlainForm(p) ==
    \E k \in 1..Len(p) :
        /\ \A i \in 1..k : p[i] \in SegmentLetters
        /\ SegmentParts(p, k)

\* C21 as stated: isValidPath accepts the empty text and, of the others,
\* exactly the texts of the dots form and of the plain form.
C21_ListedPathLaw ==
    isValidPath(inputs[3]) <=>
        (inputs[3] = <<>> \/ DotsForm(inputs[3]) \/ PlainForm(inputs[3]))

\* C21 amended: isValidPath accepts the empty text, "./", and the texts of
\* the dots form and of the plain form, and no other; Enter in ProjectPath
\* advances to Features exactly when that holds of the trimmed input, or
\* the trimmed input is empty.
C21_PathLawWithDotSlash ==
    /\ [](isValidPath(inputs[3]) <=>
            \/ inputs[3] \in {<<>>, <<".", "/">>}
            \/ DotsForm(inputs[3])
            \/ PlainForm(inputs[3]))
    /\ [][(KeyEnter /\ state = "ProjectPath") =>
            (state' = "Features" <=>
                \/ TrimSpace(inputs[3]) \in {<<>>, <<".", "/">>}
                \/ DotsForm(TrimSpace(inputs[3]))
                \/ PlainForm(TrimSpace(inputs[3])))]_vars

\* C21 witness: the path "./" has been accepted.
C21_Witness ==
    /\ state = "Features"
    /\ projectPath = <<".", "/">>
    /\ projectPathValid

\* The features of a run that met a failure of their own.
FailedIDs(task) == {f.id : f \in task.failed}

\* The features selected in a run, by the name of their directory.
SelectedIDs(task) ==
    {featureMap[n] : n \in {x \in DOMAIN featureMap : Has(task.selectedFeatures, x)}}

\* C22: a run whose only failures are manifests that are missing or cannot
\* be parsed, or listed paths missing from the template tree, returns no
\* error and keeps projectDir; the features that met none are copied whole,
\* none of the others is, and every later step has been done.
C22_ManifestErrorsAbsorbed ==
    \A t \in 1..Len(tasks) :
        (/\ Returned(t)
         /\ tasks[t].failed # {}
         /\ FailedOps(tasks[t]) \subseteq {"manifest", "missing"}) =>
            /\ tasks[t].err = ""
            /\ Made(t)
            /\ LET dir == fs[TaskDir(tasks[t])]
               IN  /\ dir.base = "full"
                   /\ dir.overlays = SelectedIDs(tasks[t]) \ FailedIDs(tasks[t])
                   /\ dir.partial \subseteq FailedIDs(tasks[t])
                   /\ dir.mainGo # <<>>
                   /\ dir.routesGo # <<>>
                   /\ dir.rewritten
                   /\ "git init" \in dir.git

\* C22 witness: the wizard shows Success after a run that found the
\* manifest of none of several selected features.
C22_Witness ==
    /\ state = "Success"
    /\ Len(tasks) = 1
    /\ FailedOps(tasks[1]) = {"manifest"}
    /\ Cardinality(FailedIDs(tasks[1])) > 1
    /\ tasks[1].err = ""
    /\ TaskDir(tasks[1]) \in DOMAIN fs
    /\ fs[TaskDir(tasks[1])].overlays = {}

\* A Go source file.
GoSource(path) == HasSuffix(path, <<".", "g", "o">>)

\* A .yaml, .yml, .json or .toml file, a Makefile or a Dockerfile.
ListedConfig(path) ==
    \/ \E ext \in {<<".", "y", "a", "m", "l">>, <<".", "y", "m", "l">>,
                   <<".", "j", "s", "o", "n">>, <<".", "t", "o", "m", "l">>} :
          HasSuffix(path, ext)
    \/ Base(path) \in {<<"M", "a", "k", "e", "f", "i", "l", "e">>,
                       <<"D", "o", "c", "k", "e", "r", "f", "i", "l", "e">>}

\* Neither name holds a placeholder.
PlainNames ==
    \A n \in {projectName, moduleName} :
        ~Contains(n, templateModule) /\ ~Contains(n, templateName)

\* C23 as stated: in a rewritten directory no Go source file and no listed
\* config file contains either placeholder.
C23_NoPlaceholderLeft ==
    \A dir \in DOMAIN fs :
        (fs[dir].rewritten /\ PlainNames) =>
            \A p \in DOMAIN fs[dir].files :
                (GoSource(p) \/ ListedConfig(p)) =>
                    /\ ~Contains(fs[dir].files[p], templateModule)
                    /\ ~Contains(fs[dir].files[p], templateName)

\* C23 amended: in a rewritten directory no Go source file contains either
\* placeholder and no listed config file contains the placeholder project
\* name; the rewrite leaves the placeholder module of every file that is no
\* Go source file where it was.
C23_RewriteByKind ==
    /\ [](\A dir \in DOMAIN fs :
            (fs[dir].rewritten /\ PlainNames) =>
                \A p \in DOMAIN fs[dir].files :
                    /\ GoSource(p) => ~Contains(fs[dir].files[p], templateModule)
                    /\ (GoSource(p) \/ ListedConfig(p)) =>
                          ~Contains(fs[dir].files[p], templateName))
    /\ [][\A dir \in DOMAIN fs :
            (~fs[dir].rewritten /\ dir \in DOMAIN fs' /\ fs'[dir].rewritten) =>
                \A p \in DOMAIN fs[dir].files :
                    ~GoSource(p) =>
                        (Contains(fs'[dir].files[p], templateModule)
                            <=> Contains(fs[dir].files[p], templateModule))]_vars

\* C23 witness: a rewritten .yaml file that named the project and the
\* module names the new project and still the placeholder module.
C23_Witness ==
    \E dir \in DOMAIN fs :
        /\ fs[dir].rewritten
        /\ \E p \in DOMAIN fs[dir].files :
              /\ HasSuffix(p, <<".", "y", "a", "m", "l">>)
              /\ Contains(fs[dir].files[p], templateModule)
              /\ Contains(fs[dir].files[p], projectName \o <<" ">>)
              /\ ~Contains(fs[dir].files[p], templateName)

\* routes.go as a run that returned no error rendered it.
RoutesOf(t) == fs[TaskDir(tasks[t])].routesGo[1]

\* The routes of a group in a rendered routes.go.
Group(r, group) == {x \in r.routes : x.group = group}

\* A run has returned no error.
Succeeded(t) == Returned(t) /\ tasks[t].err = ""

\* C24 as stated: the routes of a domain are registered exactly when its
\* feature is selected, and every route of the user group and of the file
\* group is behind the JWT middleware exactly when Authentication is
\* selected.
C24_GroupsBehindJWT ==
    \A t \in 1..Len(tasks) :
        Succeeded(t) =>
            LET sel == tasks[t].selectedFeatures
                r == RoutesOf(t)
            IN  /\ Group(r, "auth") # {} <=> Has(sel, "Authentication (JWT)")
                /\ Group(r, "users") # {} <=> Has(sel, "User Management")
                /\ Group(r, "files") # {} <=> Has(sel, "File Storage")
                /\ \A x \in Group(r, "users") \cup Group(r, "files") :
                      x.jwt <=> Has(sel, "Authentication (JWT)")

\* C24 amended: the routes of a domain are registered exactly when its
\* feature is selected; every route of the file group, and every route of
\* the user group but the registration, is behind the JWT middleware
\* exactly when Authentication is selected; the registration never is.
C24_RoutesByFlags ==
    \A t \in 1..Len(tasks) :
        Succeeded(t) =>
            LET sel == tasks[t].selectedFeatures
                r == RoutesOf(t)
            IN  /\ Group(r, "auth") # {} <=> Has(sel, "Authentication (JWT)")
                /\ Group(r, "protected") # {} <=> Has(sel, "Authentication (JWT)")
                /\ Group(r, "users") # {} <=> Has(sel, "User Management")
                /\ Group(r, "files") # {} <=> Has(sel, "File Storage")
                /\ \A x \in Group(r, "files") : x.jwt <=> Has(sel, "Authentication (JWT)")
                /\ \A x \in Group(r, "users") :
                      IF x.handler = "uHandler.Register" THEN ~x.jwt
                      ELSE x.jwt <=> Has(sel, "Authentication (JWT)")

\* C24 witness: a run with File Storage and without Authentication has
\* rendered the file routes, none behind the middleware, and no auth route.
C24_Witness ==
    /\ Len(tasks) = 1
    /\ Succeeded(1)
    /\ Has(tasks[1].selectedFeatures, "File Storage")
    /\ ~Has(tasks[1].selectedFeatures, "Authentication (JWT)")
    /\ Group(RoutesOf(1), "files") # {}
    /\ \A x \in Group(RoutesOf(1), "files") : ~x.jwt
    /\ Group(RoutesOf(1), "auth") = {}

\* The packages and variables of the user domain and of the file domain.
UserFileNames ==
    {"userApi", "userRepo", "userService", "uRepo", "uService", "uHandler",
     "fileApi", "fileRepo", "fileService", "fRepo", "fSvc", "fileHandler"}

\* Everything a rendered routes.go refers to.
Referred(r) == r.imports \cup UNION {x.refers : x \in r.statements}

\* C25: the routes.go of a run with Authentication and without User
\* Management and File Storage imports the auth packages, builds the auth
\* handler and registers the auth routes, and refers to no package or
\* variable of the user domain or of the file domain.
C25_AuthOnlyWiring ==
    \A t \in 1..Len(tasks) :
        (/\ Succeeded(t)
         /\ Has(tasks[t].selectedFeatures, "Authentication (JWT)")
         /\ ~Has(tasks[t].selectedFeatures, "User Management")
         /\ ~Has(tasks[t].selectedFeatures, "File Storage")) =>
            /\ {"authApi", "authRepo", "authService"} \subseteq RoutesOf(t).imports
            /\ \E x \in RoutesOf(t).statements : x.declares = "aHandler"
            /\ Group(RoutesOf(t), "auth") # {}
            /\ Referred(RoutesOf(t)) \cap UserFileNames = {}

\* The menu item under the cursor of the main menu.
Chosen == menuItems[menuFocus + 1]

\* C26 as stated: Enter on Help leaves the wizard in MainMenu, and Enter on
\* Exit ends the program.
C26_HelpKeepsMainMenu ==
    [][(KeyEnter /\ state = "MainMenu" /\ menuFocus < Len(menuItems)) =>
          /\ Chosen = "help" => state' = "MainMenu" /\ ~quit'
          /\ Chosen = "exit" => quit']_vars

\* C26 amended: Enter on Help moves the wizard to Welcome with the help
\* text as its message, which View renders as the help screen, the program
\* going on; Enter on Exit ends the program, the state as it was.
C26_HelpIsWelcomeView ==
    [][(KeyEnter /\ state = "MainMenu" /\ menuFocus < Len(menuItems)) =>
          /\ Chosen = "help" =>
                /\ state' = "Welcome"
                /\ message' = HelpText
                /\ View' = "viewHelp"
                /\ ~quit'
          /\ Chosen = "exit" => quit' /\ state' = state]_vars

\* C26 witness: Help has been chosen: the wizard is in Welcome and shows
\* the help screen.
C26_Witness ==
    /\ state = "Welcome"
    /\ message = HelpText
    /\ warning = HelpWarning
    /\ View = "viewHelp"
    /\ ~quit

InParent(name) == Join(Cwd, <<".", ".", "/">> \o name)

\* C28: a run with the default project path that returned no error has
\* made the directory of the project in the parent of the working
\* directory, at ../<projectName>.
C28_CreatedInParent ==
    \A t \in 1..Len(tasks) :
        (Succeeded(t) /\ tasks[t].args[3] = <<".">>) =>
            /\ InParent(tasks[t].args[1]) \in DOMAIN fs
            /\ fs[InParent(tasks[t].args[1])].by = t

\* C29: a stored refresh token is accepted by at most one Refresh call: of
\* the Refresh calls with one token, concurrent or one after the other, at
\* most one succeeds, and none succeeds that was called after a Refresh or a
\* Logout with its token had returned.
C29_AcceptedAtMostOnce ==
    \A c \in 1..Len(calls) :
        (calls[c].op = "Refresh" /\ calls[c].result = "ok") =>
            \A d \in 1..Len(calls) \ {c} :
                (calls[d].token = calls[c].token) =>
                    /\ calls[d].op = "Refresh" => calls[d].result # "ok"
                    /\ calls[d].op = "Logout" => d \notin calls[c].before

\* The positions of the selected features.
SelectedAt(feats) == {i \in 1..Len(feats) : feats[i].Selected}

\* In the set X of positions every feature has all it requires.
Closed(graph, feats, X) ==
    \A i \in X : \A d \in RequiredBy(graph, feats[i].Name) :
        \E j \in X : feats[j].Name = d

\* The largest subset of X in which every feature has all it requires.
GreatestClosed(graph, feats, X) ==
    UNION {Y \in SUBSET X : Closed(graph, feats, Y)}

\* What is left when the features with an unmet requirement are deselected
\* one at a time in any order, as the set of the lists that can result.
RECURSIVE AnyOrder(_, _)
AnyOrder(graph, feats) ==
    IF Unmet(graph, feats) = {} THEN {feats}
    ELSE UNION {AnyOrder(graph, [feats EXCEPT ![i].Selected = FALSE]) :
                    i \in Unmet(graph, feats)}

\* A plain fixed-point loop: every round deselects all the features with an
\* unmet requirement, until a round finds none.
RECURSIVE FixedPoint(_, _)
FixedPoint(graph, feats) ==
    IF Unmet(graph, feats) = {} THEN feats
    ELSE FixedPoint(graph, [i \in 1..Len(feats) |->
                                IF i \in Unmet(graph, feats)
                                THEN [feats[i] EXCEPT !.Selected = FALSE]
                                ELSE feats[i]])

\* C30: for every dependency graph the feature screen is tried on, every
\* selection S of the features and every feature f, clearing f and running
\* checkDependents leaves selected the largest subset of S without f in
\* which every feature has all it requires, changes nothing but selection
\* flags, and leaves what deselecting in any other order and what a plain
\* fixed-point loop leave.
C30_GreatestConsistentSubset ==
    \A S \in Selections(features) : \A f \in 1..Len(features) :
        LET cleared == [S EXCEPT ![f].Selected = FALSE]
            left == checkDependents(featureDependencies, cleared)
        IN  /\ Len(left) = Len(S)
            /\ \A i \in 1..Len(S) : left[i] = [S[i] EXCEPT !.Selected = left[i].Selected]
            /\ SelectedAt(left) =
                    GreatestClosed(featureDependencies, S, SelectedAt(S) \ {f})
            /\ AnyOrder(featureDependencies, cleared) = {left}
            /\ FixedPoint(featureDependencies, cleared) = left

\* C30 witness: in a chain Authentication -> User Management -> Database
\* the cursor is on Database, cleared with Space, and the scan that started
\* again after User Management has deselected Authentication before it.
C30_Witness ==
    /\ Len(features) = 3
    /\ featureDependencies["Authentication (JWT)"] = <<"User Management">>
    /\ featureDependencies["User Management"] = <<"Database">>
    /\ featureDependencies["Database"] = <<>>
    /\ featureFocus = 2
    /\ \A i \in 1..3 : ~features[i].Selected

\* C31: the completion message is handled in Processing only; in Success
\* the command started last, from Confirm, has returned no error and its
\* message is the one shown; and a step that leaves Processing is the
\* handling of the completion message (Ctrl+C ends the program in place).
C31_SuccessOnlyThroughRun ==
    /\ [][ProcessComplete => state = "Processing"]_vars
    /\ [](state = "Success" =>
            /\ tasks # <<>>
            /\ tasks[Len(tasks)].pc = "done"
            /\ tasks[Len(tasks)].err = ""
            /\ message = CreatedMessage(projectName))
    /\ [][(state = "Processing" /\ state' # "Processing") => ProcessComplete]_vars
    /\ [][Len(tasks') > Len(tasks) => (state = "Confirm" /\ state' = "Processing")]_vars

\* C31 witness: a first command returned an error, the wizard was walked
\* through again and the second command brought it to Success.
C31_Witness ==
    /\ state = "Success"
    /\ Len(tasks) = 2
    /\ tasks[1].err # ""
    /\ tasks[2].err = ""

\* C32: whenever the wizard is in Features, EnvVars, Confirm or Processing
\* the stored projectName, moduleName and projectPath pass their
\* validators, and Tab, Shift+Tab, typing and Backspace leave the three
\* stored fields as they are.
C32_OnlyValidatedInput ==
    /\ [](state \in {"Features", "EnvVars", "Confirm", "Processing"} =>
            /\ isValidProjectName(projectName)
            /\ isValidModuleName(moduleName)
            /\ isValidPath(projectPath))
    /\ [][(KeyTab \/ KeyShiftTab \/ KeyRunes \/ KeyBackspace) =>
            UNCHANGED <<projectName, moduleName, projectPath>>]_vars

\* C32 witness: the command runs for the name "q" and the path "./", both
\* typed and validated on the way.
C32_Witness ==
    /\ state = "Processing"
    /\ Len(tasks) = 1
    /\ projectName = <<"q">>
    /\ projectPath = <<".", "/">>
    /\ inputs[3] = <<".", "/">>

\* What the project directory of task t holds at the path of a generated
\* file once createProject has returned nil: the template executed with the
\* arguments of the call, the placeholders in it rewritten.
Generated(t, template(_), path) ==
    RewriteGenerated(
        <<template(TemplateData(tasks[t].args[2], tasks[t].selectedFeatures))>>,
        path, tasks[t].args[1], tasks[t].args[2])

\* C33: createProject copies the base, then the selected features, then
\* generates main.go and routes.go, then rewrites the placeholders: after
\* every successful run main.go and routes.go hold the executed templates
\* with the placeholders rewritten, whatever the base tree or a feature holds
\* at their paths, and a path in both the base and a copied feature holds
\* the feature's file, rewritten.
C33_StepsInOrder ==
    \A t \in 1..Len(tasks) :
        (tasks[t].pc \in {"ran", "done"} /\ tasks[t].err = "" /\ Made(t)) =>
            LET dir == fs[TaskDir(tasks[t])]
                copied == FilesOf(dir.overlays)
                rewritten(p, c) == RewriteFile(p, c, tasks[t].args[1], tasks[t].args[2])
            IN  /\ MainGoPath \notin DOMAIN dir.files
                /\ RoutesGoPath \notin DOMAIN dir.files
                /\ dir.mainGo = Generated(t, mainGoTemplate, MainGoPath)
                /\ dir.routesGo = Generated(t, routesGoTemplate, RoutesGoPath)
                /\ \A p \in DOMAIN copied \ {MainGoPath, RoutesGoPath} :
                       dir.files[p] = rewritten(p, copied[p])
                /\ \A p \in DOMAIN BaseFiles \ (DOMAIN copied \cup {MainGoPath, RoutesGoPath}) :
                       dir.files[p] = rewritten(p, BaseFiles[p])

\* C33 witness: a run has succeeded on a tree whose base holds a main.go and
\* whose authentication feature, copied, holds a routes.go and a logger.go
\* the base holds too; logger.go is the feature's.
C33_Witness ==
    /\ Len(tasks) = 1
    /\ tasks[1].pc = "done"
    /\ tasks[1].err = ""
    /\ Made(1)
    /\ MainGoPath \in DOMAIN scaffoldFS.base
    /\ "auth" \in fs[TaskDir(tasks[1])].overlays
    /\ RoutesGoPath \in DOMAIN scaffoldFS.features["auth"]
    /\ LoggerGoPath \in DOMAIN scaffoldFS.base
    /\ fs[TaskDir(tasks[1])].files[LoggerGoPath]
           = RewriteFile(LoggerGoPath, TokenRepoGoImport, projectName, moduleName)
    /\ fs[TaskDir(tasks[1])].mainGo # <<>>

\* C34: after a materialization that returned nil with none of its
\* operations failing, the module on the first line of go.mod is moduleName,
\* and so is the module the imports of the generated main.go and routes.go
\* start with: the rewrite that follows the generation leaves the module the
\* templates rendered as it was.
C34_ModulePathConsistent ==
    \A t \in 1..Len(tasks) :
        (/\ tasks[t].pc \in {"ran", "done"}
         /\ tasks[t].err = ""
         /\ tasks[t].failed = {}
         /\ Made(t)) =>
            LET dir == fs[TaskDir(tasks[t])]
            IN  /\ dir.goMod = <<tasks[t].args[2]>>
                /\ dir.mainGo[1].Module = tasks[t].args[2]
                /\ dir.routesGo[1].Module = tasks[t].args[2]

\* The handlers that list, get, update and delete users.
UserHandlers == {"uHandler.ListUsers", "uHandler.GetUser", "uHandler.Update", "uHandler.Delete"}

MainOf(t) == fs[TaskDir(tasks[t])].mainGo[1]

\* C36: the main.go of a run calls RegisterRoutes exactly when Database was
\* selected; a run with Authentication and without Database renders a
\* routes.go that registers the auth routes and a main.go that does not
\* call RegisterRoutes.
C36_RegisterRoutesIffDatabase ==
    \A t \in 1..Len(tasks) :
        Succeeded(t) =>
            /\ "RegisterRoutes" \in MainOf(t).calls
                  <=> Has(tasks[t].selectedFeatures, "Database")
            /\ (/\ Has(tasks[t].selectedFeatures, "Authentication (JWT)")
                /\ ~Has(tasks[t].selectedFeatures, "Database")) =>
                  /\ Group(RoutesOf(t), "auth") # {}
                  /\ "RegisterRoutes" \notin MainOf(t).calls

\* C36 witness: a run with Authentication and without Database has rendered
\* the auth routes and a main.go without the call.
C36_Witness ==
    /\ Len(tasks) = 1
    /\ Succeeded(1)
    /\ Has(tasks[1].selectedFeatures, "Authentication (JWT)")
    /\ ~Has(tasks[1].selectedFeatures, "Database")
    /\ Group(RoutesOf(1), "auth") # {}
    /\ "RegisterRoutes" \notin MainOf(1).calls
    /\ "StartServer" \in MainOf(1).calls

\* The six features featureMap has a directory for.
MappedFeatures ==
    {"Authentication (JWT)", "User Management", "Database", "File Storage", "API Docs",
     "Docker"}

\* selectedFeatures without its entry for Podman.
Mapped(selectedFeatures) == [n \in MappedFeatures |-> Has(selectedFeatures, n)]

AutoEnabled(feats) ==
    LET picked == SelectSeq(feats, LAMBDA f : f.Selected /\ ~f.Default)
    IN  [k \in 1..Len(picked) |-> picked[k].Name]

====
